---- MODULE Spec2Model ----
(***************************************************************************)
(* es6_crypto: key-format conversion of secp256r1 keys (PrivKey, PubKey,   *)
(* KeyPair, Convert) on top of crypto.subtle.                              *)
(*                                                                         *)
(* Binary buffers are sequences of bytes (0..255), texts are sequences of  *)
(* one-character strings.  An operation that can throw returns a record    *)
(* [ok, val, err]: Ok(v) when it returns v, Thrown(e) when it throws e.    *)
(*                                                                         *)
(* The curve of the model is a 16-bit curve of the same shape as P-256     *)
(* (y^2 = x^3 - 3x + b over a prime field, prime order, cofactor 1), so a  *)
(* scalar or a coordinate is KeyLen = 2 bytes where P-256 has 32.  Every   *)
(* buffer offset of the source is written relative to KeyLen: 36, 68, 74,  *)
(* 106, 138 of the PKCS#8 layout are DOff, XYHeaderOff, XOff, YOff,        *)
(* Pkcs8Len, and 33, 65, 97 of the raw layouts are 1 + KeyLen, RawPubLen,  *)
(* RawPrivLen.  2 and 32 leave the same remainder modulo 3, so the base64  *)
(* padding of every exported text is the one of the real key sizes.        *)
(***************************************************************************)
EXTENDS Integers, Sequences, FiniteSets, TLC

\* ------------------------------------------------------------------ bounds
\* crypto.subtle.generateKey draws its scalar from 1..MaxD
MaxD == 5
\* seeds handed to fromSeed are at most MaxSeedLen bytes long
MaxSeedLen == 3
\* a fromSeed run is followed for at most MaxAttempts calls of fromD
MaxAttempts == 6

\* --------------------------------------------------------------- results
Ok(v) == [ok |-> TRUE, val |-> v, err |-> "none"]

Thrown(e) == [ok |-> FALSE, val |-> <<>>, err |-> e]

\* const name = v: the rest F of a function body, with v under its name;
\* v is evaluated once, when it is bound
Let(v, F(_)) == CHOOSE r \in {F(x) : x \in {v}} : TRUE

\* const name = v before the rest A of an action
LetIn(v, A(_)) == A(v)

\* ------------------------------------------------------ sequence helpers
Min(a, b) == IF a < b THEN a ELSE b

Max(a, b) == IF a > b THEN a ELSE b

Zeros(n) == [i \in 1..n |-> 0]

\* TypedArray.prototype.subarray(begin, end) / ArrayBuffer.prototype.slice:
\* 0-based, end exclusive, both clamped to the length
Subarray(a, begin, end) ==
  Let(Min(begin, Len(a)), LAMBDA b :
  Let(Min(end, Len(a)), LAMBDA e :
      IF e <= b THEN <<>> ELSE [i \in 1..(e - b) |-> a[b + i]]))

\* TypedArray.prototype.set(src, off): RangeError when src does not fit
SetAt(target, src, off) ==
  IF off + Len(src) > Len(target)
  THEN Thrown("RangeError")
  ELSE Ok([i \in 1..Len(target) |->
            IF i > off /\ i <= off + Len(src) THEN src[i - off] ELSE target[i]])

RECURSIVE Flatten(_)
Flatten(ss) == IF ss = <<>> THEN <<>> ELSE Head(ss) \o Flatten(Tail(ss))

\* String.prototype.replaceAll(from, to) for one-character from
ReplaceAll(str, from, to) ==
  [i \in 1..Len(str) |-> IF str[i] = from THEN to ELSE str[i]]

\* String.prototype.replace(c, ''): removes the FIRST occurrence of c only
RemoveFirst(str, c) ==
  IF \E i \in 1..Len(str) : str[i] = c
  THEN Let(CHOOSE i \in 1..Len(str) :
             str[i] = c /\ \A j \in 1..(i - 1) : str[j] # c, LAMBDA k :
           SubSeq(str, 1, k - 1) \o SubSeq(str, k + 1, Len(str)))
  ELSE str

\* ---------------------------------------------------------------- Convert
HexDigits ==
  <<"0", "1", "2", "3", "4", "5", "6", "7",
    "8", "9", "a", "b", "c", "d", "e", "f">>

HexUpper == <<"A", "B", "C", "D", "E", "F">>

IsHexChar(c) ==
  \/ \E i \in 1..16 : HexDigits[i] = c
  \/ \E i \in 1..6 : HexUpper[i] = c

HexVal(c) ==
  IF \E i \in 1..16 : HexDigits[i] = c
  THEN (CHOOSE i \in 1..16 : HexDigits[i] = c) - 1
  ELSE (CHOOSE i \in 1..6 : HexUpper[i] = c) + 9

\* Number.parseInt(piece, 16) of a piece of one or two characters, followed
\* by the Uint8Array conversion of the result: the longest prefix of hex
\* digits is parsed, and NaN (no digit at all) is stored as 0
ParseInt16(piece) ==
  IF piece = <<>> \/ ~IsHexChar(piece[1]) THEN 0
  ELSE IF Len(piece) = 1 \/ ~IsHexChar(piece[2]) THEN HexVal(piece[1])
  ELSE HexVal(piece[1]) * 16 + HexVal(piece[2])

\* the pairs counted from the start of the string
HexSplit_fromStart(hex) ==
  Let(Len(hex), LAMBDA n :
  Let((n + 1) \div 2, LAMBDA cnt :
      [k \in 1..cnt |->
        IF 2 * k > n THEN <<hex[2 * k - 1]>>
        ELSE <<hex[2 * k - 1], hex[2 * k]>>]))

\* hex.split(/(?=(?:..)*$)/): the pieces are the pairs counted from the END
\* of the string; with an odd length the first character is a piece alone
HexSplit(hex) ==
  Let(Len(hex), LAMBDA n :
  Let(n % 2, LAMBDA odd :
  Let((n + 1) \div 2, LAMBDA cnt :
      [k \in 1..cnt |->
        IF odd = 1
        THEN (IF k = 1 THEN <<hex[1]>> ELSE <<hex[2 * k - 2], hex[2 * k - 1]>>)
        ELSE <<hex[2 * k - 1], hex[2 * k]>>])))

hexStringToArrayBuffer(hex) ==
  Let(HexSplit(hex), LAMBDA pieces :
      [k \in 1..Len(pieces) |-> ParseInt16(pieces[k])])

\* i.toString(16) without padStart: a byte below 0x10 gives one digit
arrayBufferToHexString_nopad(buf) ==
  Flatten([k \in 1..Len(buf) |->
            IF buf[k] < 16 THEN <<HexDigits[buf[k] + 1]>>
            ELSE <<HexDigits[(buf[k] \div 16) + 1], HexDigits[(buf[k] % 16) + 1]>>])

\* i.toString(16).padStart(2, '0') for every byte
arrayBufferToHexString(buf) ==
  Flatten([k \in 1..Len(buf) |->
            <<HexDigits[(buf[k] \div 16) + 1], HexDigits[(buf[k] % 16) + 1]>>])

B64Alphabet ==
  <<"A", "B", "C", "D", "E", "F", "G", "H", "I", "J", "K", "L", "M",
    "N", "O", "P", "Q", "R", "S", "T", "U", "V", "W", "X", "Y", "Z",
    "a", "b", "c", "d", "e", "f", "g", "h", "i", "j", "k", "l", "m",
    "n", "o", "p", "q", "r", "s", "t", "u", "v", "w", "x", "y", "z",
    "0", "1", "2", "3", "4", "5", "6", "7", "8", "9", "+", "/">>

IsB64Char(c) == \E i \in 1..64 : B64Alphabet[i] = c

B64Val(c) == (CHOOSE i \in 1..64 : B64Alphabet[i] = c) - 1

\* btoa of the binary string of bytes: three bytes give four characters, a
\* last group of one or two bytes is padded with '='
B64Group(b) ==
  Let(Len(b), LAMBDA n :
  Let(b[1], LAMBDA b1 :
  Let(IF n >= 2 THEN b[2] ELSE 0, LAMBDA b2 :
  Let(IF n >= 3 THEN b[3] ELSE 0, LAMBDA b3 :
  Let(B64Alphabet[(b1 \div 4) + 1], LAMBDA c1 :
  Let(B64Alphabet[((b1 % 4) * 16 + (b2 \div 16)) + 1], LAMBDA c2 :
  Let(B64Alphabet[((b2 % 16) * 4 + (b3 \div 64)) + 1], LAMBDA c3 :
  Let(B64Alphabet[(b3 % 64) + 1], LAMBDA c4 :
      IF n = 1 THEN <<c1, c2, "=", "=">>
      ELSE IF n = 2 THEN <<c1, c2, c3, "=">>
      ELSE <<c1, c2, c3, c4>>))))))))

btoa(bytes) ==
  Let((Len(bytes) + 2) \div 3, LAMBDA cnt :
      Flatten([g \in 1..cnt |->
                B64Group(Subarray(bytes, 3 * (g - 1), 3 * g))]))

\* atob: when the length is a multiple of 4, one or two '=' at the end are
\* removed; a remaining length of 1 modulo 4, or a remaining character
\* outside the alphabet, throws; the bits left over at the end are dropped
B64Strip(b64) ==
  Let(Len(b64), LAMBDA n :
      IF n % 4 = 0 /\ n > 0 /\ b64[n] = "="
      THEN (IF b64[n - 1] = "=" THEN SubSeq(b64, 1, n - 2)
                                ELSE SubSeq(b64, 1, n - 1))
      ELSE b64)

B64Quad(q) ==
  Let(Len(q), LAMBDA n :
  Let(B64Val(q[1]), LAMBDA v1 :
  Let(B64Val(q[2]), LAMBDA v2 :
  Let(IF n >= 3 THEN B64Val(q[3]) ELSE 0, LAMBDA v3 :
  Let(IF n >= 4 THEN B64Val(q[4]) ELSE 0, LAMBDA v4 :
  Let(v1 * 4 + (v2 \div 16), LAMBDA o1 :
  Let((v2 % 16) * 16 + (v3 \div 4), LAMBDA o2 :
  Let((v3 % 4) * 64 + v4, LAMBDA o3 :
      IF n = 2 THEN <<o1>>
      ELSE IF n = 3 THEN <<o1, o2>>
      ELSE <<o1, o2, o3>>))))))))

atob(b64) ==
  Let(B64Strip(b64), LAMBDA s :
  Let((Len(s) + 3) \div 4, LAMBDA cnt :
      IF Len(s) % 4 = 1 \/ \E i \in 1..Len(s) : ~IsB64Char(s[i])
      THEN Thrown("InvalidCharacterError")
      ELSE Ok(Flatten([g \in 1..cnt |->
                        B64Quad(Subarray(s, 4 * (g - 1), 4 * g))]))))

\* btoa(String.fromCharCode.apply(null, new Uint8Array(array)))
arrayBufferToBase64(array) == btoa(array)

\* the copy loop stops one character early: the last byte stays 0
base64ToArrayBuffer_short(b64) ==
  Let(atob(b64), LAMBDA binaryString :
      IF ~binaryString.ok THEN binaryString
      ELSE Ok([i \in 1..Len(binaryString.val) |->
                IF i < Len(binaryString.val) THEN binaryString.val[i] ELSE 0]))

\* array[i] = binaryString.charCodeAt(i) for every i below the length
base64ToArrayBuffer(b64) ==
  Let(atob(b64), LAMBDA binaryString :
      IF ~binaryString.ok THEN binaryString
      ELSE Ok([i \in 1..Len(binaryString.val) |-> binaryString.val[i]]))

base64ToUrlBase64(str) ==
  RemoveFirst(ReplaceAll(ReplaceAll(str, "/", "_"), "+", "-"), "=")

urlBase64ToBase64(str) == ReplaceAll(ReplaceAll(str, "_", "/"), "-", "+")

arrayBufferToUrlBase64(array) == base64ToUrlBase64(arrayBufferToBase64(array))

urlBase64ToArrayBuffer(ub64) == base64ToArrayBuffer(urlBase64ToBase64(ub64))

\* ------------------------------------------------ curve (tom_vu/ec.js)
\* bytes of a scalar or of a coordinate (32 for P-256)
KeyLen == 2

\* field modulus q, coefficients a = q - 3 and b, base point G, order n
CurveQ == 45697

CurveA == CurveQ - 3

CurveB == 20

CurveGx == 37277

CurveGy == 15151

CurveN == 45361

Infinity == [inf |-> TRUE, x |-> 0, y |-> 0]

Point(px, py) == [inf |-> FALSE, x |-> px, y |-> py]

RECURSIVE EGcd(_, _)
\* <<g, s, t>> with g = gcd(a, b) = s * a + t * b
EGcd(a, b) ==
  IF b = 0 THEN <<a, 1, 0>>
  ELSE Let(a % b, LAMBDA m :
       Let(EGcd(b, m), LAMBDA r :
           <<r[1], r[3], r[2] - (a \div b) * r[3]>>))

ModInv(a, m) == Let(a % m, LAMBDA r : EGcd(r, m)[2] % m)

MulMod(a, b) == ((a % CurveQ) * (b % CurveQ)) % CurveQ

OnCurve(px, py) ==
  /\ px \in 0..(CurveQ - 1)
  /\ py \in 0..(CurveQ - 1)
  /\ MulMod(py, py) =
       (MulMod(MulMod(px, px), px) + MulMod(CurveA, px) + CurveB) % CurveQ

PointAdd(p1, p2) ==
  IF p1.inf THEN p2
  ELSE IF p2.inf THEN p1
  ELSE IF p1.x = p2.x /\ (p1.y + p2.y) % CurveQ = 0 THEN Infinity
  ELSE Let(IF p1.x = p2.x
           THEN MulMod((3 * MulMod(p1.x, p1.x) + CurveA) % CurveQ,
                       ModInv(2 * p1.y, CurveQ))
           ELSE MulMod((p2.y - p1.y) % CurveQ,
                       ModInv((p2.x - p1.x) % CurveQ, CurveQ)), LAMBDA l :
       Let((MulMod(l, l) - p1.x - p2.x) % CurveQ, LAMBDA x3 :
           Point(x3, (MulMod(l, (p1.x - x3) % CurveQ) - p1.y) % CurveQ)))

RECURSIVE PointMul(_, _)
\* k * p by double-and-add, k >= 0
PointMul(p, k) ==
  IF k = 0 THEN Infinity
  ELSE Let(PointMul(p, k \div 2), LAMBDA h :
       Let(PointAdd(h, h), LAMBDA dbl :
           IF k % 2 = 1 THEN PointAdd(dbl, p) ELSE dbl))

CurveG == Point(CurveGx, CurveGy)

\* the multiples (j * 16^i) * G of the base point, i < 4, j < 16
GWindows ==
  [i \in 0..3 |-> [j \in 0..15 |-> PointMul(CurveG, j * (16 ^ i))]]

\* k * G for 0 <= k < 65536, as the sum of one multiple per hex digit of k
GMul(k) ==
  Let(PointAdd(GWindows[0][k % 16], GWindows[1][(k \div 16) % 16]), LAMBDA lo :
  Let(PointAdd(GWindows[2][(k \div 256) % 16],
               GWindows[3][(k \div 4096) % 16]), LAMBDA hi :
      PointAdd(lo, hi)))

\* big-endian value of a buffer of at most 3 bytes
RECURSIVE BytesToInt(_)
BytesToInt(b) ==
  IF b = <<>> THEN 0
  ELSE Let(SubSeq(b, 1, Len(b) - 1), LAMBDA init :
           BytesToInt(init) * 256 + b[Len(b)])

RECURSIVE IntToBytes(_, _)
\* big-endian encoding of v on exactly n bytes
IntToBytes(v, n) ==
  IF n = 0 THEN <<>>
  ELSE Let(v \div 256, LAMBDA hi : Append(IntToBytes(hi, n - 1), v % 256))

\* --------------------------------------------- BigInteger (tom_vu/BigInteger.js)
\* A BigInteger is the sequence of its hex digit values without leading
\* zero digits (the empty sequence is 0): arbitrary precision.
RECURSIVE StripZeros(_)
StripZeros(ds) ==
  IF ds # <<>> /\ Head(ds) = 0
  THEN Let(Tail(ds), LAMBDA rest : StripZeros(rest))
  ELSE ds

\* new BigInteger(hex, 16)
BigInteger(hex) ==
  Let([i \in 1..Len(hex) |-> HexVal(hex[i])], LAMBDA ds : StripZeros(ds))

\* BigInteger.prototype.toString(16): no leading zero digit, "0" for zero
BigIntToString16(ds) ==
  IF ds = <<>> THEN <<"0">> ELSE [i \in 1..Len(ds) |-> HexDigits[ds[i] + 1]]

RECURSIVE BigIntMod(_, _)
\* the value of the digits modulo m
BigIntMod(ds, m) ==
  IF ds = <<>> THEN 0
  ELSE Let(SubSeq(ds, 1, Len(ds) - 1), LAMBDA init :
           (BigIntMod(init, m) * 16 + ds[Len(ds)]) % m)

RECURSIVE IntToDigits(_)
IntToDigits(v) ==
  IF v = 0 THEN <<>>
  ELSE Let(v \div 16, LAMBDA hi : Append(IntToDigits(hi), v % 16))

\* G.multiply(k): k * G, which depends on k modulo the order of G only
GMultiply(k) == Let(BigIntMod(k, CurveN), LAMBDA r : GMul(r))

\* p.getX().toBigInteger() / p.getY().toBigInteger()
PointGetX(p) == IntToDigits(p.x)

PointGetY(p) == IntToDigits(p.y)

\* ------------------------------------------------------------ state
VARIABLES
  strict,    \* the provider checks that the public point stored with a
             \* private key is its scalar times G (some providers do, some
             \* keep the stored point as it is)
  subject,   \* the key object the caller holds: [cls, v], with its history:
             \* origin (how the first object of the chain of exports and
             \* imports that led to it was made), root (the key material
             \* of that first object), chain (the kind of steps since)
  exported,  \* the last export: [fmt, val, of], of = the exporting object
  result,    \* the last import: [op, r, input], r = Ok(object) or Thrown
  runs,      \* the two fromSeed runs: [cls, seed, cur, attempts, st, key]
  shared,    \* the JWK object that a caller hands to two calls of fromJwk
  calls,     \* these two calls: [cls, pc, ecdh, priv, r, overlap, arg],
             \* pc = the import the call does next, r = what the call
             \* returned or threw, arg = the object as the caller made it
  alice,     \* the two KeyPair objects handed to Crypto
  bob,
  signed,    \* the last Crypto.sign: [as, data, r]
  verdict,   \* the last Crypto.verify: [who, as, data, signed, r]
  envelope,  \* the last Crypto.encrypt: [alice, bob, data, iv, random, r]
  plain,     \* the last Crypto.decrypt: [alice, bob, of, r]
  buffer,    \* the buffer handed to Convert
  text,      \* the last string Convert made of it: [fmt, str]
  back,      \* the buffer Convert restored from text: [fmt, r]
  dispatched, \* the last PrivKey.from / PubKey.from: [cls, type, arg, via, r, n]
  pair       \* an import followed promise by promise: [kind, cls, cur,
             \* attempts, pc, priv, pub, left, out]; priv and pub are the
             \* promises of the two halves, left the promises that the call
             \* went on without awaiting

\* the variables of the key objects and of Crypto
keyVars == <<subject, exported, result, runs, shared, calls>>

cryptoVars == <<alice, bob, signed, verdict, envelope, plain>>

convertVars == <<buffer, text, back>>

fromVars == <<dispatched>>

pairVars == <<pair>>

vars == <<strict, keyVars, cryptoVars, convertVars, fromVars, pairVars>>

\* ------------------------------------- crypto.subtle (the provider)
\* fixed DER prefix of the SPKI export of a P-256 public key
spkiHeader ==
  <<48, 89, 48, 19, 6, 7, 42, 134, 72, 206, 61, 2, 1,
    6, 8, 42, 134, 72, 206, 61, 3, 1, 7, 3, 66, 0>>

pkcs8DHeader ==
  <<48, 129, 135, 2, 1, 0, 48,
    19, 6, 7, 42, 134, 72, 206,
    61, 2, 1, 6, 8, 42, 134,
    72, 206, 61, 3, 1, 7, 4,
    109, 48, 107, 2, 1, 1, 4,
    32>>

pkcs8XYHeader == <<161, 68, 3, 66, 0, 4>>

\* offsets of the PKCS#8 layout: 36, 68, 74, 106 and the length 138
DOff == Len(pkcs8DHeader)

XYHeaderOff == DOff + KeyLen

XOff == XYHeaderOff + Len(pkcs8XYHeader)

YOff == XOff + KeyLen

Pkcs8Len == Len(pkcs8DHeader) + Len(pkcs8XYHeader) + 3 * KeyLen

\* lengths of the raw layouts: 65 and 97
RawPubLen == 1 + 2 * KeyLen

RawPrivLen == RawPubLen + KeyLen

SpkiLen == Len(spkiHeader) + RawPubLen

\* a CryptoKey: d = -1 in a public key
PrivateHandle(algo, usages, d, px, py) ==
  [type |-> "private", algo |-> algo, usages |-> usages,
   d |-> d, x |-> px, y |-> py]

PublicHandle(algo, usages, px, py) ==
  [type |-> "public", algo |-> algo, usages |-> usages,
   d |-> -1, x |-> px, y |-> py]

PrivateUsages(algo) == IF algo = "ECDH" THEN {"deriveKey", "deriveBits"}
                                         ELSE {"sign"}

PublicUsages(algo) == IF algo = "ECDH" THEN {} ELSE {"verify"}

\* the key material of a private key is accepted
ValidPrivate(d, px, py) ==
  /\ d \in 1..(CurveN - 1)
  /\ OnCurve(px, py)
  /\ strict => GMul(d) = Point(px, py)

\* importKey('pkcs8', buf, algo, true, usages)
importKeyPkcs8(buf, algo, usages) ==
  IF ~(usages \subseteq PrivateUsages(algo)) \/ usages = {}
  THEN Thrown("SyntaxError")
  ELSE IF \/ Len(buf) # Pkcs8Len
          \/ Subarray(buf, 0, DOff) # pkcs8DHeader
          \/ Subarray(buf, XYHeaderOff, XOff) # pkcs8XYHeader
  THEN Thrown("DataError")
  ELSE Let(BytesToInt(Subarray(buf, DOff, XYHeaderOff)), LAMBDA d :
       Let(BytesToInt(Subarray(buf, XOff, YOff)), LAMBDA px :
       Let(BytesToInt(Subarray(buf, YOff, Pkcs8Len)), LAMBDA py :
           IF ValidPrivate(d, px, py)
           THEN Ok(PrivateHandle(algo, usages, d, px, py))
           ELSE Thrown("DataError"))))

\* importKey('raw', buf, algo, true, usages): uncompressed point
importKeyRaw(buf, algo, usages) ==
  IF ~(usages \subseteq PublicUsages(algo))
  THEN Thrown("SyntaxError")
  ELSE IF Len(buf) # RawPubLen \/ buf[1] # 4
  THEN Thrown("DataError")
  ELSE Let(BytesToInt(Subarray(buf, 1, 1 + KeyLen)), LAMBDA px :
       Let(BytesToInt(Subarray(buf, 1 + KeyLen, RawPubLen)), LAMBDA py :
           IF OnCurve(px, py)
           THEN Ok(PublicHandle(algo, usages, px, py))
           ELSE Thrown("DataError")))

\* importKey('spki', buf, algo, true, usages)
importKeySpki(buf, algo, usages) ==
  IF ~(usages \subseteq PublicUsages(algo))
  THEN Thrown("SyntaxError")
  ELSE IF Len(buf) # SpkiLen \/ Subarray(buf, 0, Len(spkiHeader)) # spkiHeader
  THEN Thrown("DataError")
  ELSE importKeyRaw(Subarray(buf, Len(spkiHeader), SpkiLen), algo, usages)

\* base64url of RFC 7515 as the provider writes and reads the JWK fields:
\* no '=' at all
JwkEncode(bytes) ==
  Let(ReplaceAll(ReplaceAll(btoa(bytes), "/", "_"), "+", "-"), LAMBDA b :
      SelectSeq(b, LAMBDA c : c # "="))

JwkDecode(txt) ==
  IF \E i \in 1..Len(txt) : txt[i] \in {"=", "+", "/"}
  THEN Thrown("DataError")
  ELSE atob(ReplaceAll(ReplaceAll(txt, "_", "/"), "-", "+"))

\* a field of KeyLen bytes of a JWK, -1 when it is not one
JwkField(jwk, f) ==
  Let(JwkDecode(jwk[f]), LAMBDA r :
      IF r.ok /\ Len(r.val) = KeyLen THEN BytesToInt(r.val) ELSE -1)

\* importKey('jwk', jwk, algo, true, usages)
importKeyJwk(jwk, algo, usages) ==
  Let("d" \in DOMAIN jwk, LAMBDA private :
  Let(IF private THEN PrivateUsages(algo) ELSE PublicUsages(algo), LAMBDA allowed :
      IF ~(usages \subseteq allowed) \/ (private /\ usages = {})
      THEN Thrown("SyntaxError")
      ELSE IF \/ ~({"kty", "crv", "x", "y"} \subseteq DOMAIN jwk)
              \/ jwk["kty"] # <<"E", "C">>
              \/ jwk["crv"] # <<"P", "-", "2", "5", "6">>
              \/ /\ "key_ops" \in DOMAIN jwk
                 /\ \E u \in usages :
                      \A i \in 1..Len(jwk["key_ops"]) : jwk["key_ops"][i] # u
              \/ ("ext" \in DOMAIN jwk /\ jwk["ext"] = FALSE)
      THEN Thrown("DataError")
      ELSE Let(JwkField(jwk, "x"), LAMBDA px :
           Let(JwkField(jwk, "y"), LAMBDA py :
           Let(IF private THEN JwkField(jwk, "d") ELSE -1, LAMBDA d :
               IF private
               THEN (IF ValidPrivate(d, px, py)
                     THEN Ok(PrivateHandle(algo, usages, d, px, py))
                     ELSE Thrown("DataError"))
               ELSE (IF OnCurve(px, py)
                     THEN Ok(PublicHandle(algo, usages, px, py))
                     ELSE Thrown("DataError")))))))

UsagesSeq(usages) ==
  IF usages = {} THEN <<>> ELSE <<CHOOSE u \in usages : TRUE>>

\* exportKey('jwk', key)
exportKeyJwk(key) ==
  Let([crv |-> <<"P", "-", "2", "5", "6">>,
       ext |-> TRUE,
       key_ops |-> UsagesSeq(key.usages),
       kty |-> <<"E", "C">>,
       x |-> JwkEncode(IntToBytes(key.x, KeyLen)),
       y |-> JwkEncode(IntToBytes(key.y, KeyLen))], LAMBDA pub :
      IF key.type = "private"
      THEN [f \in DOMAIN pub \cup {"d"} |->
             IF f = "d" THEN JwkEncode(IntToBytes(key.d, KeyLen)) ELSE pub[f]]
      ELSE pub)

\* exportKey('raw', key)
exportKeyRaw(key) ==
  IF key.type # "public" THEN Thrown("InvalidAccessError")
  ELSE Ok(<<4>> \o IntToBytes(key.x, KeyLen) \o IntToBytes(key.y, KeyLen))

\* exportKey('spki', key)
exportKeySpki(key) ==
  IF key.type # "public" THEN Thrown("InvalidAccessError")
  ELSE Ok(spkiHeader \o <<4>> \o IntToBytes(key.x, KeyLen)
                     \o IntToBytes(key.y, KeyLen))

\* exportKey('pkcs8', key)
exportKeyPkcs8(key) ==
  IF key.type # "private" THEN Thrown("InvalidAccessError")
  ELSE Ok(pkcs8DHeader \o IntToBytes(key.d, KeyLen) \o pkcs8XYHeader
                       \o IntToBytes(key.x, KeyLen) \o IntToBytes(key.y, KeyLen))

\* generateKey(ecdhAlgo, true, ['deriveKey']).privateKey with scalar d
generateKey(d) ==
  Let(GMul(d), LAMBDA p :
      PrivateHandle("ECDH", {"deriveKey"}, d, p.x, p.y))

RECURSIVE DigestFold(_, _)
DigestFold(h, bytes) ==
  IF bytes = <<>> THEN h
  ELSE Let((h * 251 + Head(bytes) + 1) % 65536, LAMBDA next :
       Let(Tail(bytes), LAMBDA rest : DigestFold(next, rest)))

\* digest('SHA-256', bytes): a fixed function of the bytes whose value has
\* the length of a scalar
digest(bytes) ==
  Let((DigestFold(27145, bytes) * 251 + Len(bytes)) % 65536, LAMBDA h :
      IntToBytes(h, KeyLen))

\* sign({name: 'ECDSA', hash: 'SHA-256'}, key, data): a signature names the
\* point of the scalar that made it, the data, and the nonce that the
\* provider drew
subtleSign(key, data, nonce) ==
  IF key.type # "private" \/ key.algo # "ECDSA" \/ "sign" \notin key.usages
  THEN Thrown("InvalidAccessError")
  ELSE Ok([by |-> GMul(key.d), data |-> data, nonce |-> nonce])

\* verify({name: 'ECDSA', hash: 'SHA-256'}, key, signature, data)
subtleVerify(key, signature, data) ==
  IF key.type # "public" \/ key.algo # "ECDSA" \/ "verify" \notin key.usages
  THEN Thrown("InvalidAccessError")
  ELSE Ok(signature.by = Point(key.x, key.y) /\ signature.data = data)

\* deriveKey({name: 'ECDH', public}, key, {name: 'AES-GCM', length: 256},
\* false, usages): the AES key is the x coordinate of scalar * point
deriveKey(public, key, usages) ==
  IF \/ key.type # "private" \/ key.algo # "ECDH"
     \/ "deriveKey" \notin key.usages
     \/ public.type # "public" \/ public.algo # "ECDH"
  THEN Thrown("InvalidAccessError")
  ELSE Ok([secret |-> PointMul(Point(public.x, public.y), key.d).x,
           usages |-> usages])

\* encrypt({name: 'AES-GCM', iv}, key, data): authenticated encryption, the
\* cipher text opens under its key and its iv only
subtleEncrypt(iv, key, data) ==
  IF "encrypt" \notin key.usages THEN Thrown("InvalidAccessError")
  ELSE Ok([secret |-> key.secret, iv |-> iv, data |-> data])

\* decrypt({name: 'AES-GCM', iv}, key, data)
subtleDecrypt(iv, key, data) ==
  IF "decrypt" \notin key.usages THEN Thrown("InvalidAccessError")
  ELSE IF data.secret = key.secret /\ data.iv = iv THEN Ok(data.data)
  ELSE Thrown("OperationError")

\* ---------------------------------------------------------------- PrivKey
\* new PrivKey(ecdh, ecdsa)
PrivKey(ecdh, ecdsa) == [ecdh |-> ecdh, ecdsa |-> ecdsa]

RECURSIVE SetAll(_, _)
\* target.set(src, off) for every <<src, off>> of parts, in order
SetAll(target, parts) ==
  IF parts = <<>> THEN Ok(target)
  ELSE Let(Head(parts), LAMBDA part :
       Let(SetAt(target, part[1], part[2]), LAMBDA r :
       Let(Tail(parts), LAMBDA rest :
           IF r.ok THEN SetAll(r.val, rest) ELSE r)))

\* jwk.f = v / delete jwk.f
SetField(jwk, f, v) ==
  [g \in DOMAIN jwk \cup {f} |-> IF g = f THEN v ELSE jwk[g]]

DeleteField(jwk, f) == [g \in DOMAIN jwk \ {f} |-> jwk[g]]

PrivKey_fromPkcs8(buf) ==
  Let(importKeyPkcs8(buf, "ECDH", {"deriveKey"}), LAMBDA ecdh :
  Let(importKeyPkcs8(buf, "ECDSA", {"sign"}), LAMBDA ecdsa :
      IF ~ecdh.ok THEN ecdh
      ELSE IF ~ecdsa.ok THEN ecdsa
      ELSE Ok(PrivKey(ecdh.val, ecdsa.val))))

PrivKey_fromBase64(b64) ==
  Let(base64ToArrayBuffer(b64), LAMBDA buf :
      IF buf.ok THEN PrivKey_fromPkcs8(buf.val) ELSE buf)

PrivKey_fromHex(hex) == PrivKey_fromPkcs8(hexStringToArrayBuffer(hex))

\* the raw buffer read as D, X, Y instead of X, Y, D
FromRaw_pkcs8_dFirst(raw) ==
  SetAll(Zeros(Len(pkcs8DHeader) + Len(pkcs8XYHeader) + 3 * KeyLen),
         << <<pkcs8DHeader, 0>>,
            <<Subarray(raw, 1, 1 + KeyLen), DOff>>,
            <<pkcs8XYHeader, XYHeaderOff>>,
            <<Subarray(raw, 1 + KeyLen, RawPrivLen), XOff>> >>)

\* the PKCS#8 buffer that fromRaw builds of raw
FromRaw_pkcs8(raw) ==
  SetAll(Zeros(Len(pkcs8DHeader) + Len(pkcs8XYHeader) + 3 * KeyLen),
         << <<pkcs8DHeader, 0>>,
            <<Subarray(raw, RawPubLen, RawPrivLen), DOff>>,
            <<pkcs8XYHeader, XYHeaderOff>>,
            <<Subarray(raw, 1, RawPubLen), XOff>> >>)

PrivKey_fromRaw(raw) ==
  Let(FromRaw_pkcs8(raw), LAMBDA pkcs8 :
      IF pkcs8.ok THEN PrivKey_fromPkcs8(pkcs8.val) ELSE pkcs8)

PrivKey_fromJwk(jwk) ==
  Let(importKeyJwk(SetField(jwk, "key_ops", <<"deriveKey">>),
                   "ECDH", {"deriveKey"}), LAMBDA ecdh :
  Let(importKeyJwk(SetField(jwk, "key_ops", <<"sign">>),
                   "ECDSA", {"sign"}), LAMBDA ecdsa :
      IF ~ecdh.ok THEN ecdh
      ELSE IF ~ecdsa.ok THEN ecdsa
      ELSE Ok(PrivKey(ecdh.val, ecdsa.val))))

\* the caller's jwk object after PrivKey.fromJwk(jwk)
PrivKey_fromJwk_jwk(jwk) ==
  IF importKeyJwk(SetField(jwk, "key_ops", <<"deriveKey">>),
                  "ECDH", {"deriveKey"}).ok
  THEN SetField(jwk, "key_ops", <<"sign">>)
  ELSE SetField(jwk, "key_ops", <<"deriveKey">>)

\* the PKCS#8 buffer that fromD builds of dBuf, or what building it throws
FromD_pkcs8(dBuf) ==
  Let(arrayBufferToHexString(dBuf), LAMBDA hexD :
  Let(BigInteger(hexD), LAMBDA bigIntD :
  Let(GMultiply(bigIntD), LAMBDA p :
  Let(PointGetX(p), LAMBDA bigIntX :
  Let(BigIntToString16(bigIntX), LAMBDA hexX :
  Let(hexStringToArrayBuffer(hexX), LAMBDA rawX :
  Let(PointGetY(p), LAMBDA bigIntY :
  Let(BigIntToString16(bigIntY), LAMBDA hexY :
  Let(hexStringToArrayBuffer(hexY), LAMBDA rawY :
      IF p.inf THEN Thrown("TypeError")
      ELSE SetAll(Zeros(Len(pkcs8DHeader) + Len(pkcs8XYHeader) + 3 * KeyLen),
                  << <<pkcs8DHeader, 0>>,
                     <<dBuf, DOff>>,
                     <<pkcs8XYHeader, XYHeaderOff>>,
                     <<rawX, XOff>>,
                     <<rawY, YOff>> >>))))))))))

PrivKey_fromD(dBuf) ==
  Let(FromD_pkcs8(dBuf), LAMBDA pkcs8 :
      IF pkcs8.ok THEN PrivKey_fromPkcs8(pkcs8.val) ELSE pkcs8)

\* PrivKey.fromRandom when generateKey draws the scalar d
PrivKey_fromRandom(d) == PrivKey_fromJwk(exportKeyJwk(generateKey(d)))

PrivKey_toJwk(k) == exportKeyJwk(k.ecdh)

PrivKey_toPkcs8(k) == exportKeyPkcs8(k.ecdh)

PrivKey_toHex(k) ==
  Let(PrivKey_toPkcs8(k), LAMBDA pkcs8 :
      IF pkcs8.ok THEN Ok(arrayBufferToHexString(pkcs8.val)) ELSE pkcs8)

PrivKey_toBase64(k) ==
  Let(PrivKey_toPkcs8(k), LAMBDA pkcs8 :
      IF pkcs8.ok THEN Ok(arrayBufferToBase64(pkcs8.val)) ELSE pkcs8)

PrivKey_toD(k) == urlBase64ToArrayBuffer(PrivKey_toJwk(k)["d"])

\* toRaw with the scalar sliced one byte early: subarray(35, 67)
PrivKey_toRaw_early(k) ==
  Let(PrivKey_toPkcs8(k), LAMBDA pkcs8 :
      IF ~pkcs8.ok THEN pkcs8
      ELSE SetAll(Zeros(RawPrivLen),
                  << <<<<4>>, 0>>,
                     <<Subarray(pkcs8.val, XOff, Pkcs8Len), 1>>,
                     <<Subarray(pkcs8.val, DOff - 1, XYHeaderOff - 1),
                       RawPubLen>> >>))

PrivKey_toRaw(k) ==
  Let(PrivKey_toPkcs8(k), LAMBDA pkcs8 :
      IF ~pkcs8.ok THEN pkcs8
      ELSE SetAll(Zeros(RawPrivLen),
                  << <<<<4>>, 0>>,
                     <<Subarray(pkcs8.val, XOff, Pkcs8Len), 1>>,
                     <<Subarray(pkcs8.val, DOff, XYHeaderOff), RawPubLen>> >>))

\* ----------------------------------------------------------------- PubKey
PubKey(ecdh, ecdsa) == [ecdh |-> ecdh, ecdsa |-> ecdsa]

PubKey_fromSpki(pubBuf) ==
  Let(importKeySpki(pubBuf, "ECDH", {}), LAMBDA ecdh :
  Let(importKeySpki(pubBuf, "ECDSA", {"verify"}), LAMBDA ecdsa :
      IF ~ecdh.ok THEN ecdh
      ELSE IF ~ecdsa.ok THEN ecdsa
      ELSE Ok(PubKey(ecdh.val, ecdsa.val))))

PubKey_fromBase64(b64) ==
  Let(base64ToArrayBuffer(b64), LAMBDA spki :
      IF spki.ok THEN PubKey_fromSpki(spki.val) ELSE spki)

PubKey_fromHex(hex) == PubKey_fromSpki(hexStringToArrayBuffer(hex))

\* the private scalar is left in the jwk
PubKey_fromJwk_keepD(jwk) ==
  Let(importKeyJwk(SetField(jwk, "key_ops", <<>>), "ECDH", {}), LAMBDA ecdh :
  Let(importKeyJwk(SetField(jwk, "key_ops", <<"verify">>),
                   "ECDSA", {"verify"}), LAMBDA ecdsa :
      IF ~ecdh.ok THEN ecdh
      ELSE IF ~ecdsa.ok THEN ecdsa
      ELSE Ok(PubKey(ecdh.val, ecdsa.val))))

PubKey_fromJwk(jwk) ==
  Let(DeleteField(jwk, "d"), LAMBDA pubJwk :
  Let(importKeyJwk(SetField(pubJwk, "key_ops", <<>>), "ECDH", {}), LAMBDA ecdh :
  Let(importKeyJwk(SetField(pubJwk, "key_ops", <<"verify">>),
                   "ECDSA", {"verify"}), LAMBDA ecdsa :
      IF ~ecdh.ok THEN ecdh
      ELSE IF ~ecdsa.ok THEN ecdsa
      ELSE Ok(PubKey(ecdh.val, ecdsa.val)))))

\* the caller's jwk object after PubKey.fromJwk(jwk)
PubKey_fromJwk_jwk(jwk) ==
  Let(DeleteField(jwk, "d"), LAMBDA pubJwk :
      IF importKeyJwk(SetField(pubJwk, "key_ops", <<>>), "ECDH", {}).ok
      THEN SetField(pubJwk, "key_ops", <<"verify">>)
      ELSE SetField(pubJwk, "key_ops", <<>>))

PubKey_fromRaw(raw) ==
  Let(importKeyRaw(raw, "ECDH", {}), LAMBDA ecdh :
  Let(importKeyRaw(raw, "ECDSA", {"verify"}), LAMBDA ecdsa :
      IF ~ecdh.ok THEN ecdh
      ELSE IF ~ecdsa.ok THEN ecdsa
      ELSE Ok(PubKey(ecdh.val, ecdsa.val))))

\* the raw buffer that fromCoordinates builds of x and y
FromCoordinates_raw(cx, cy) ==
  SetAll(Zeros(1 + Len(cx) + Len(cy)),
         << <<<<4>>, 0>>, <<cx, 1>>, <<cy, 1 + Len(cx)>> >>)

PubKey_fromCoordinates(cx, cy) ==
  Let(FromCoordinates_raw(cx, cy), LAMBDA raw :
      IF raw.ok THEN PubKey_fromRaw(raw.val) ELSE raw)

PubKey_fromPrivKey(priv) == PubKey_fromJwk(PrivKey_toJwk(priv))

PubKey_toRaw(k) == exportKeyRaw(k.ecdh)

\* the slices taken from the first byte of the raw export on
PubKey_toCoordinates_fromZero(k) ==
  Let(PubKey_toRaw(k), LAMBDA raw :
      IF ~raw.ok THEN raw
      ELSE Ok([x |-> Subarray(raw.val, 0, KeyLen),
               y |-> Subarray(raw.val, KeyLen, 2 * KeyLen)]))

PubKey_toCoordinates(k) ==
  Let(PubKey_toRaw(k), LAMBDA raw :
      IF ~raw.ok THEN raw
      ELSE Ok([x |-> Subarray(raw.val, 1, 1 + KeyLen),
               y |-> Subarray(raw.val, 1 + KeyLen, RawPubLen)]))

PubKey_toSpki(k) == exportKeySpki(k.ecdh)

PubKey_toBase64(k) ==
  Let(PubKey_toSpki(k), LAMBDA spki :
      IF spki.ok THEN Ok(arrayBufferToBase64(spki.val)) ELSE spki)

PubKey_toHex(k) ==
  Let(PubKey_toSpki(k), LAMBDA spki :
      IF spki.ok THEN Ok(arrayBufferToHexString(spki.val)) ELSE spki)

PubKey_toJwk(k) == exportKeyJwk(k.ecdh)

\* ---------------------------------------------------------------- KeyPair
\* new KeyPair(await priv, await pub)
KeyPair(priv, pub) ==
  IF ~priv.ok THEN priv
  ELSE IF ~pub.ok THEN pub
  ELSE Ok([priv |-> priv.val, pub |-> pub.val])

KeyPair_fromJwk(jwk) ==
  Let(PrivKey_fromJwk(jwk), LAMBDA priv :
      IF ~priv.ok THEN priv
      ELSE KeyPair(priv, PubKey_fromJwk(PrivKey_fromJwk_jwk(jwk))))

\* the public point taken from the scalar's offset on
KeyPair_fromPkcs8_fromD(pkcs8) ==
  Let(PrivKey_fromPkcs8(pkcs8), LAMBDA priv :
  Let(SetAll(Zeros(RawPubLen),
             << <<<<4>>, 0>>,
                <<Subarray(pkcs8, DOff, DOff + 2 * KeyLen), 1>> >>), LAMBDA rawPub :
      IF ~rawPub.ok THEN rawPub
      ELSE KeyPair(priv, PubKey_fromRaw(rawPub.val))))

\* the public half derived from the scalar of the private half
KeyPair_fromPkcs8_derived(pkcs8) ==
  Let(PrivKey_fromPkcs8(pkcs8), LAMBDA priv :
      IF ~priv.ok THEN priv
      ELSE Let(GMul(priv.val.ecdh.d), LAMBDA p :
               KeyPair(priv, PubKey_fromRaw(<<4>> \o IntToBytes(p.x, KeyLen)
                                                 \o IntToBytes(p.y, KeyLen)))))

KeyPair_fromPkcs8(pkcs8) ==
  Let(PrivKey_fromPkcs8(pkcs8), LAMBDA priv :
  Let(SetAll(Zeros(RawPubLen),
             << <<<<4>>, 0>>,
                <<Subarray(pkcs8, XOff, Pkcs8Len), 1>> >>), LAMBDA rawPub :
      IF ~rawPub.ok THEN rawPub
      ELSE KeyPair(priv, PubKey_fromRaw(rawPub.val))))

KeyPair_fromBase64(b64) ==
  Let(base64ToArrayBuffer(b64), LAMBDA pkcs8 :
      IF pkcs8.ok THEN KeyPair_fromPkcs8(pkcs8.val) ELSE pkcs8)

KeyPair_fromHex(hex) == KeyPair_fromPkcs8(hexStringToArrayBuffer(hex))

KeyPair_fromRaw(raw) ==
  Let(PrivKey_fromRaw(raw), LAMBDA priv :
  Let(SetAll(Zeros(RawPubLen),
             << <<Subarray(raw, 0, RawPubLen), 0>> >>), LAMBDA rawPubCopy :
      IF ~rawPubCopy.ok THEN rawPubCopy
      ELSE KeyPair(priv, PubKey_fromRaw(rawPubCopy.val))))

\* the point and the two buffers that KeyPair.fromD builds of dBuf
KeyPair_fromD_buffers(dBuf) ==
  Let(arrayBufferToHexString(dBuf), LAMBDA hexD :
  Let(BigInteger(hexD), LAMBDA bigIntD :
  Let(GMultiply(bigIntD), LAMBDA p :
  Let(PointGetX(p), LAMBDA bigIntX :
  Let(BigIntToString16(bigIntX), LAMBDA hexX :
  Let(hexStringToArrayBuffer(hexX), LAMBDA rawXArr :
  Let(PointGetY(p), LAMBDA bigIntY :
  Let(BigIntToString16(bigIntY), LAMBDA hexY :
  Let(hexStringToArrayBuffer(hexY), LAMBDA rawYArr :
  Let(SetAll(Zeros(Len(pkcs8DHeader) + Len(pkcs8XYHeader) + 3 * KeyLen),
             << <<pkcs8DHeader, 0>>,
                <<dBuf, DOff>>,
                <<pkcs8XYHeader, XYHeaderOff>>,
                <<rawXArr, XOff>>,
                <<rawYArr, YOff>> >>), LAMBDA pkcs8 :
  Let(SetAll(Zeros(RawPubLen),
             << <<<<4>>, 0>>,
                <<rawXArr, 1>>,
                <<rawYArr, 1 + KeyLen>> >>), LAMBDA rawPub :
      [p |-> p, pkcs8 |-> pkcs8, rawPub |-> rawPub])))))))))))

\* a short scalar padded in front to the width of the field
KeyPair_fromD_padded(dBuf) ==
  Let(KeyPair_fromD_buffers(IF Len(dBuf) < KeyLen
                            THEN Zeros(KeyLen - Len(dBuf)) \o dBuf
                            ELSE dBuf), LAMBDA built :
      IF built.p.inf THEN Thrown("TypeError")
      ELSE IF ~built.pkcs8.ok THEN built.pkcs8
      ELSE IF ~built.rawPub.ok THEN built.rawPub
      ELSE Let(PrivKey_fromPkcs8(built.pkcs8.val), LAMBDA priv :
           Let(PubKey_fromRaw(built.rawPub.val), LAMBDA pub :
               KeyPair(priv, pub))))

KeyPair_fromD(dBuf) ==
  Let(KeyPair_fromD_buffers(dBuf), LAMBDA built :
      IF built.p.inf THEN Thrown("TypeError")
      ELSE IF ~built.pkcs8.ok THEN built.pkcs8
      ELSE IF ~built.rawPub.ok THEN built.rawPub
      ELSE Let(PrivKey_fromPkcs8(built.pkcs8.val), LAMBDA priv :
           Let(PubKey_fromRaw(built.rawPub.val), LAMBDA pub :
               KeyPair(priv, pub))))

\* KeyPair.fromRandom when generateKey draws the scalar d
KeyPair_fromRandom(d) == KeyPair_fromJwk(exportKeyJwk(generateKey(d)))

KeyPair_toPkcs8(kp) == PrivKey_toPkcs8(kp.priv)

KeyPair_toRaw(kp) == PrivKey_toRaw(kp.priv)

KeyPair_toD(kp) == PrivKey_toD(kp.priv)

KeyPair_toHex(kp) == PrivKey_toHex(kp.priv)

KeyPair_toBase64(kp) == PrivKey_toBase64(kp.priv)

KeyPair_toJwk(kp) == PrivKey_toJwk(kp.priv)

\* ----------------------------------------------------------------- Crypto
\* An argument of Crypto is an object [cls, v]; iv = NoIv is the default
\* argument iv = null.
NoIv == <<>>

IvLen == 16

\* sign with the ECDH handle of the private key
Crypto_sign_ecdh(priv, dataArray, nonce) ==
  subtleSign((IF priv.cls = "KeyPair" THEN priv.v.priv ELSE priv.v).ecdh,
             dataArray, nonce)

Crypto_sign(priv, dataArray, nonce) ==
  subtleSign((IF priv.cls = "KeyPair" THEN priv.v.priv ELSE priv.v).ecdsa,
             dataArray, nonce)

Crypto_verify(pub, dataArray, signatureArray) ==
  subtleVerify((IF pub.cls = "KeyPair" THEN pub.v.pub ELSE pub.v).ecdsa,
               signatureArray, dataArray)

\* a new iv is generated whether or not the caller gave one
Crypto_encrypt_newIv(alicePriv, bobPub, dataArray, iv, random) ==
  Let(IF alicePriv.cls = "KeyPair" THEN alicePriv.v.priv ELSE alicePriv.v,
      LAMBDA priv :
  Let(IF bobPub.cls = "KeyPair" THEN bobPub.v.pub ELSE bobPub.v,
      LAMBDA pub :
  Let(deriveKey(pub.ecdh, priv.ecdh, {"encrypt"}), LAMBDA secretKey :
      IF ~secretKey.ok THEN secretKey
      ELSE Let(subtleEncrypt(random, secretKey.val, dataArray),
               LAMBDA encryptedData :
               IF ~encryptedData.ok THEN encryptedData
               ELSE Ok([iv |-> random,
                        encryptedData |-> encryptedData.val])))))

\* random = the bytes that crypto.getRandomValues writes to a new iv
Crypto_encrypt(alicePriv, bobPub, dataArray, iv, random) ==
  Let(IF alicePriv.cls = "KeyPair" THEN alicePriv.v.priv ELSE alicePriv.v,
      LAMBDA priv :
  Let(IF bobPub.cls = "KeyPair" THEN bobPub.v.pub ELSE bobPub.v,
      LAMBDA pub :
  Let(IF iv = NoIv THEN random ELSE iv, LAMBDA usedIv :
  Let(deriveKey(pub.ecdh, priv.ecdh, {"encrypt"}), LAMBDA secretKey :
      IF ~secretKey.ok THEN secretKey
      ELSE Let(subtleEncrypt(usedIv, secretKey.val, dataArray),
               LAMBDA encryptedData :
               IF ~encryptedData.ok THEN encryptedData
               ELSE Ok([iv |-> usedIv,
                        encryptedData |-> encryptedData.val]))))))

Crypto_decrypt(alicePub, bobPriv, dataArray, iv) ==
  Let(IF bobPriv.cls = "KeyPair" THEN bobPriv.v.priv ELSE bobPriv.v,
      LAMBDA priv :
  Let(IF alicePub.cls = "KeyPair" THEN alicePub.v.pub ELSE alicePub.v,
      LAMBDA pub :
  Let(deriveKey(pub.ecdh, priv.ecdh, {"decrypt"}), LAMBDA secretKey :
      IF ~secretKey.ok THEN secretKey
      ELSE subtleDecrypt(iv, secretKey.val, dataArray))))

\* ------------------------------------------------------------- fromSeed
\* bytes a caller puts in a seed or in a scalar buffer
SeedBytes == {0, 1, 2, 200}

RECURSIVE SeqsUpTo(_, _)
SeqsUpTo(S, n) ==
  IF n = 0 THEN {<<>>}
  ELSE Let(SeqsUpTo(S, n - 1), LAMBDA shorter :
           shorter \cup {Append(q, b) : q \in {t \in shorter : Len(t) = n - 1},
                                        b \in S})

\* a seed one byte too long for pkcs8.set(new Uint8Array(dBuf), 36): 103
\* bytes for the buffer of 138
LongSeed == [i \in 1..(Pkcs8Len - DOff + 1) |-> 1]

Seeds == SeqsUpTo(SeedBytes, MaxSeedLen) \cup {LongSeed}

FromD(cls, dBuf) ==
  IF cls = "PrivKey" THEN PrivKey_fromD(dBuf) ELSE KeyPair_fromD(dBuf)

IdleRun ==
  [cls |-> "none", seed |-> <<>>, cur |-> <<>>, attempts |-> 0,
   st |-> "idle", key |-> <<>>]

\* fromSeed keeps the key it derived last and returns it again
SeedAttempt_memo(run) ==
  Let(FromD(run.cls, run.cur), LAMBDA r :
  Let({j \in 1..2 : runs[j].st = "done" /\ runs[j].cls = run.cls}, LAMBDA cached :
      IF cached # {}
      THEN [run EXCEPT !.st = "done",
                       !.key = runs[CHOOSE j \in cached : TRUE].key,
                       !.attempts = run.attempts + 1]
      ELSE IF r.ok
      THEN [run EXCEPT !.st = "done", !.key = r.val,
                       !.attempts = run.attempts + 1]
      ELSE [run EXCEPT !.cur = digest(run.cur),
                       !.attempts = run.attempts + 1,
                       !.st = IF run.attempts + 1 >= MaxAttempts
                              THEN "capped" ELSE "running"]))

\* fromSeed gives up at its second rejected scalar and reports the error
SeedAttempt_giveUp(run) ==
  Let(FromD(run.cls, run.cur), LAMBDA r :
      IF r.ok
      THEN [run EXCEPT !.st = "done", !.key = r.val,
                       !.attempts = run.attempts + 1]
      ELSE [run EXCEPT !.cur = digest(run.cur),
                       !.attempts = run.attempts + 1,
                       !.st = IF run.attempts + 1 >= 2
                              THEN "failed" ELSE "running"])

\* one round of fromSeed: try fromD(seed); when it throws, whatever it
\* throws, go on with fromSeed(digest('SHA-256', seed))
SeedAttempt(run) ==
  Let(FromD(run.cls, run.cur), LAMBDA r :
      IF r.ok
      THEN [run EXCEPT !.st = "done", !.key = r.val,
                       !.attempts = run.attempts + 1]
      ELSE [run EXCEPT !.cur = digest(run.cur),
                       !.attempts = run.attempts + 1,
                       !.st = IF run.attempts + 1 >= MaxAttempts
                              THEN "capped" ELSE "running"])

\* ------------------------------------- fromJwk, from await to await
\* A call of fromJwk runs up to its next await in one piece: it writes to
\* the caller's object and hands it to importKey, which reads its argument
\* before it returns the promise.  Between two awaits of one call the other
\* call may run.
NoShared == [none |-> TRUE]

IdleCall ==
  [cls |-> "none", pc |-> "idle", ecdh |-> <<>>, priv |-> <<>>,
   r |-> Thrown("none"), overlap |-> FALSE, arg |-> <<>>]

\* the object as the piece of fromJwk at pc leaves it
JwkWritten(pc, jwk) ==
  CASE pc = "priv.ecdh" -> SetField(jwk, "key_ops", <<"deriveKey">>)
    [] pc = "priv.ecdsa" -> SetField(jwk, "key_ops", <<"sign">>)
    [] pc = "pub.ecdh" -> SetField(DeleteField(jwk, "d"), "key_ops", <<>>)
    [] pc = "pub.ecdsa" -> SetField(jwk, "key_ops", <<"verify">>)

\* the ECDSA handle imported from another JWK than the ECDH handle
JwkAwaited_otherJwk(pc, jwk) ==
  CASE pc = "priv.ecdh" ->
         importKeyJwk(JwkWritten(pc, jwk), "ECDH", {"deriveKey"})
    [] pc = "priv.ecdsa" ->
         importKeyJwk(JwkWritten(pc, exportKeyJwk(generateKey(1))),
                      "ECDSA", {"sign"})
    [] pc = "pub.ecdh" -> importKeyJwk(JwkWritten(pc, jwk), "ECDH", {})
    [] pc = "pub.ecdsa" ->
         importKeyJwk(JwkWritten(pc, DeleteField(exportKeyJwk(generateKey(1)),
                                                 "d")),
                      "ECDSA", {"verify"})

\* the handle that the piece of fromJwk at pc awaits
JwkAwaited(pc, jwk) ==
  CASE pc = "priv.ecdh" ->
         importKeyJwk(JwkWritten(pc, jwk), "ECDH", {"deriveKey"})
    [] pc = "priv.ecdsa" ->
         importKeyJwk(JwkWritten(pc, jwk), "ECDSA", {"sign"})
    [] pc = "pub.ecdh" -> importKeyJwk(JwkWritten(pc, jwk), "ECDH", {})
    [] pc = "pub.ecdsa" ->
         importKeyJwk(JwkWritten(pc, jwk), "ECDSA", {"verify"})

\* a rejected ECDSA import is not looked at: the instance is made of the
\* ECDH handle alone
CallResumed_partial(call, h) ==
  IF ~h.ok /\ call.pc \in {"priv.ecdh", "pub.ecdh"}
  THEN [call EXCEPT !.pc = "done", !.r = h]
  ELSE CASE call.pc = "priv.ecdh" ->
              [call EXCEPT !.pc = "priv.ecdsa", !.ecdh = h.val]
         [] call.pc = "priv.ecdsa" ->
              IF call.cls = "PrivKey"
              THEN [call EXCEPT !.pc = "done",
                                !.r = Ok(PrivKey(call.ecdh, h.val))]
              ELSE [call EXCEPT !.pc = "pub.ecdh",
                                !.priv = PrivKey(call.ecdh, h.val)]
         [] call.pc = "pub.ecdh" ->
              [call EXCEPT !.pc = "pub.ecdsa", !.ecdh = h.val]
         [] call.pc = "pub.ecdsa" ->
              IF call.cls = "PubKey"
              THEN [call EXCEPT !.pc = "done",
                                !.r = Ok(PubKey(call.ecdh, h.val))]
              ELSE [call EXCEPT !.pc = "done",
                                !.r = KeyPair(Ok(call.priv),
                                              Ok(PubKey(call.ecdh, h.val)))]

\* the call after the handle h it awaited at call.pc has arrived: a rejected
\* import ends the call, the ECDSA handle completes a PrivKey or a PubKey,
\* and KeyPair.fromJwk goes on from its PrivKey to PubKey.fromJwk
CallResumed(call, h) ==
  IF ~h.ok THEN [call EXCEPT !.pc = "done", !.r = h]
  ELSE CASE call.pc = "priv.ecdh" ->
              [call EXCEPT !.pc = "priv.ecdsa", !.ecdh = h.val]
         [] call.pc = "priv.ecdsa" ->
              IF call.cls = "PrivKey"
              THEN [call EXCEPT !.pc = "done",
                                !.r = Ok(PrivKey(call.ecdh, h.val))]
              ELSE [call EXCEPT !.pc = "pub.ecdh",
                                !.priv = PrivKey(call.ecdh, h.val)]
         [] call.pc = "pub.ecdh" ->
              [call EXCEPT !.pc = "pub.ecdsa", !.ecdh = h.val]
         [] call.pc = "pub.ecdsa" ->
              IF call.cls = "PubKey"
              THEN [call EXCEPT !.pc = "done",
                                !.r = Ok(PubKey(call.ecdh, h.val))]
              ELSE [call EXCEPT !.pc = "done",
                                !.r = KeyPair(Ok(call.priv),
                                              Ok(PubKey(call.ecdh, h.val)))]

\* cls.fromJwk(jwk) is called
NewCall(cls) ==
  [IdleCall EXCEPT !.cls = cls,
                   !.pc = IF cls = "PubKey" THEN "pub.ecdh" ELSE "priv.ecdh"]

\* ------------------------------------------------------------ operations
NoObject ==
  [cls |-> "none", v |-> <<>>, origin |-> "none", root |-> <<>>,
   chain |-> "none"]

\* the key material <<d, x, y>> that the exports of an object read
Material(cls, v) ==
  IF cls = "KeyPair" THEN <<v.priv.ecdh.d, v.priv.ecdh.x, v.priv.ecdh.y>>
  ELSE <<v.ecdh.d, v.ecdh.x, v.ecdh.y>>

\* an object made of nothing the library had exported
NewObject(cls, v, origin) ==
  [cls |-> cls, v |-> v, origin |-> origin, root |-> Material(cls, v),
   chain |-> "provider"]

\* the formats whose bytes the provider itself writes and reads
ProviderFormats == {"pkcs8", "jwk", "hex", "b64"}

\* the object imported as cls of the export in format fmt of the object from
NextObject(cls, v, fmt, from) ==
  IF from.cls = "none" THEN NewObject(cls, v, "caller")
  ELSE [cls |-> cls, v |-> v, origin |-> from.origin, root |-> from.root,
        chain |-> IF /\ from.chain = "provider"
                     /\ cls = "PrivKey" /\ from.cls = "PrivKey"
                     /\ fmt \in ProviderFormats
                  THEN "provider" ELSE "mixed"]

NoExport == [fmt |-> "none", r |-> Thrown("none"), of |-> NoObject,
             fresh |-> FALSE]

NoResult ==
  [op |-> <<"none", "from", "none">>, r |-> Thrown("none"), input |-> NoExport]

PrivFormats == {"pkcs8", "raw", "jwk", "d", "hex", "b64"}

PubFormats == {"spki", "raw", "jwk", "hex", "b64", "coordinates"}

FormatsOf(cls) == IF cls = "PubKey" THEN PubFormats ELSE PrivFormats

\* obj.toF()
Export(cls, fmt, v) ==
  IF cls = "PrivKey"
  THEN CASE fmt = "pkcs8" -> PrivKey_toPkcs8(v)
         [] fmt = "raw" -> PrivKey_toRaw(v)
         [] fmt = "jwk" -> Ok(PrivKey_toJwk(v))
         [] fmt = "d" -> PrivKey_toD(v)
         [] fmt = "hex" -> PrivKey_toHex(v)
         [] fmt = "b64" -> PrivKey_toBase64(v)
  ELSE IF cls = "KeyPair"
  THEN CASE fmt = "pkcs8" -> KeyPair_toPkcs8(v)
         [] fmt = "raw" -> KeyPair_toRaw(v)
         [] fmt = "jwk" -> Ok(KeyPair_toJwk(v))
         [] fmt = "d" -> KeyPair_toD(v)
         [] fmt = "hex" -> KeyPair_toHex(v)
         [] fmt = "b64" -> KeyPair_toBase64(v)
  ELSE CASE fmt = "spki" -> PubKey_toSpki(v)
         [] fmt = "raw" -> PubKey_toRaw(v)
         [] fmt = "jwk" -> Ok(PubKey_toJwk(v))
         [] fmt = "hex" -> PubKey_toHex(v)
         [] fmt = "b64" -> PubKey_toBase64(v)
         [] fmt = "coordinates" -> PubKey_toCoordinates(v)

\* cls.fromF(val)
Import(cls, fmt, val) ==
  IF cls = "PrivKey"
  THEN CASE fmt = "pkcs8" -> PrivKey_fromPkcs8(val)
         [] fmt = "raw" -> PrivKey_fromRaw(val)
         [] fmt = "jwk" -> PrivKey_fromJwk(val)
         [] fmt = "d" -> PrivKey_fromD(val)
         [] fmt = "hex" -> PrivKey_fromHex(val)
         [] fmt = "b64" -> PrivKey_fromBase64(val)
  ELSE IF cls = "KeyPair"
  THEN CASE fmt = "pkcs8" -> KeyPair_fromPkcs8(val)
         [] fmt = "raw" -> KeyPair_fromRaw(val)
         [] fmt = "jwk" -> KeyPair_fromJwk(val)
         [] fmt = "d" -> KeyPair_fromD(val)
         [] fmt = "hex" -> KeyPair_fromHex(val)
         [] fmt = "b64" -> KeyPair_fromBase64(val)
  ELSE CASE fmt = "spki" -> PubKey_fromSpki(val)
         [] fmt = "raw" -> PubKey_fromRaw(val)
         [] fmt = "jwk" -> PubKey_fromJwk(val)
         [] fmt = "hex" -> PubKey_fromHex(val)
         [] fmt = "b64" -> PubKey_fromBase64(val)
         [] fmt = "coordinates" -> PubKey_fromCoordinates(val.x, val.y)

\* the caller's value after cls.fromF(val): a jwk object is written to
AfterImport(cls, fmt, val) ==
  IF fmt # "jwk" THEN val
  ELSE IF cls = "PrivKey" THEN PrivKey_fromJwk_jwk(val)
  ELSE IF cls = "PubKey" THEN PubKey_fromJwk_jwk(val)
  ELSE IF PrivKey_fromJwk(val).ok
       THEN PubKey_fromJwk_jwk(PrivKey_fromJwk_jwk(val))
       ELSE PrivKey_fromJwk_jwk(val)

OpName(cls, fmt) == <<cls, "from", fmt>>

\* --------------------------------------------------------------- actions
NoSigned == [as |-> "none", data |-> <<>>, r |-> Thrown("none")]

NoVerdict ==
  [who |-> "none", as |-> "none", data |-> <<>>, signed |-> NoSigned,
   r |-> Thrown("none")]

NoEnvelope ==
  [alice |-> "none", bob |-> "none", data |-> <<>>, iv |-> NoIv,
   random |-> <<>>, r |-> Thrown("none")]

NoPlain ==
  [alice |-> "none", bob |-> "none", of |-> NoEnvelope, r |-> Thrown("none")]

\* no key object made, no call of fromSeed or fromJwk made
IdleKeys ==
  /\ subject = NoObject
  /\ exported = NoExport
  /\ result = NoResult
  /\ runs = [i \in 1..2 |-> IdleRun]
  /\ shared = NoShared
  /\ calls = [i \in 1..2 |-> IdleCall]

\* nothing handed to Crypto
IdleCrypto ==
  /\ alice = NoObject
  /\ bob = NoObject
  /\ signed = NoSigned
  /\ verdict = NoVerdict
  /\ envelope = NoEnvelope
  /\ plain = NoPlain

NoText == [fmt |-> "none", str |-> <<>>]

NoBack == [fmt |-> "none", r |-> Thrown("none")]

\* nothing handed to Convert
IdleConvert ==
  /\ buffer = <<>>
  /\ text = NoText
  /\ back = NoBack

NoDispatch ==
  [cls |-> "none", type |-> "none", arg |-> <<>>, via |-> "none",
   r |-> Thrown("none"), n |-> 0]

\* from not called
IdleFrom == dispatched = NoDispatch

\* a promise of PrivKey.fromPkcs8 (fmt pkcs8) or of PubKey.fromRaw (fmt raw):
\* st is the import it awaits (ecdh, then ecdsa) or how it settled
NoTask == [st |-> "none", fmt |-> "none", buf |-> <<>>, err |-> "none"]

NoPair ==
  [kind |-> "none", cls |-> "none", cur |-> <<>>, attempts |-> 0,
   pc |-> "idle", priv |-> NoTask, pub |-> NoTask, left |-> <<>>,
   out |-> Thrown("none")]

\* no import is followed promise by promise
IdlePair == pair = NoPair

\* what the operations on key objects, of Crypto and of Convert leave alone
aside == <<cryptoVars, convertVars, fromVars, pairVars>>

cryptoAside == <<convertVars, fromVars, pairVars>>

convertAside == <<fromVars, pairVars>>

Init ==
  /\ strict \in BOOLEAN
  /\ IdleKeys
  /\ IdleCrypto
  /\ IdleConvert
  /\ IdleFrom
  /\ IdlePair

NoRun == \A i \in 1..2 : runs[i].st = "idle"

NoCall == \A i \in 1..2 : calls[i].pc = "idle"

\* the value a caller passes to an import without having exported it
CallerInput(fmt, val) ==
  [fmt |-> fmt, r |-> Ok(val), of |-> NoObject, fresh |-> TRUE]

\* what an import leaves: its result, and the imported object in the
\* caller's hands when it returned one
Imported(cls, fmt, input) ==
  LetIn(Import(cls, fmt, input.r.val), LAMBDA r :
      /\ result' = [op |-> OpName(cls, fmt), r |-> r, input |-> input]
      /\ subject' = IF r.ok THEN NextObject(cls, r.val, fmt, input.of)
                            ELSE subject)

\* PrivKey.fromRandom() / KeyPair.fromRandom()
DoFromRandom(cls, d) ==
  /\ NoRun /\ NoCall /\ subject = NoObject
  /\ LetIn(IF cls = "PrivKey" THEN PrivKey_fromRandom(d)
                            ELSE KeyPair_fromRandom(d), LAMBDA r :
         /\ result' = [op |-> OpName(cls, "random"), r |-> r,
                       input |-> NoExport]
         /\ subject' = IF r.ok THEN NewObject(cls, r.val, "random")
                            ELSE subject)
  /\ exported' = NoExport
  /\ UNCHANGED <<shared, calls, strict, runs>>
  /\ UNCHANGED aside

\* subject.toF()
DoExport(fmt) ==
  /\ subject.cls # "none"
  /\ fmt \in FormatsOf(subject.cls)
  /\ exported' = [fmt |-> fmt, r |-> Export(subject.cls, fmt, subject.v),
                  of |-> subject, fresh |-> TRUE]
  /\ result' = NoResult
  /\ UNCHANGED <<shared, calls, strict, subject, runs>>
  /\ UNCHANGED aside

\* cls.fromF(exported value)
DoImport(cls) ==
  /\ exported.r.ok
  /\ IF exported.of.cls = "PubKey" THEN cls = "PubKey"
                                   ELSE cls \in {"PrivKey", "KeyPair"}
  /\ Imported(cls, exported.fmt, exported)
  /\ exported' = [exported EXCEPT
                    !.r = Ok(AfterImport(cls, exported.fmt, exported.r.val)),
                    !.fresh = FALSE]
  /\ UNCHANGED <<shared, calls, strict, runs>>
  /\ UNCHANGED aside

\* PubKey.fromCoordinates(x, y) with x and y decoded from the fields of an
\* exported public JWK
DoFromJwkCoordinates ==
  /\ exported.r.ok
  /\ exported.fmt = "jwk"
  /\ exported.of.cls = "PubKey"
  /\ LetIn(urlBase64ToArrayBuffer(exported.r.val["x"]), LAMBDA cx :
     LetIn(urlBase64ToArrayBuffer(exported.r.val["y"]), LAMBDA cy :
     LetIn(IF ~cx.ok THEN cx
         ELSE IF ~cy.ok THEN cy
         ELSE PubKey_fromCoordinates(cx.val, cy.val), LAMBDA r :
         /\ result' = [op |-> OpName("PubKey", "jwk-coordinates"), r |-> r,
                       input |-> exported]
         /\ subject' = IF r.ok
                       THEN NextObject("PubKey", r.val, "coordinates",
                                       exported.of)
                       ELSE subject)))
  /\ exported' = [exported EXCEPT !.fresh = FALSE]
  /\ UNCHANGED <<shared, calls, strict, runs>>
  /\ UNCHANGED aside

PrivOf(obj) == IF obj.cls = "KeyPair" THEN obj.v.priv ELSE obj.v

\* PubKey.fromPrivKey(priv) of the subject's private key
DoFromPrivKey ==
  /\ subject.cls \in {"PrivKey", "KeyPair"}
  /\ result' = [op |-> OpName("PubKey", "PrivKey"),
                r |-> PubKey_fromPrivKey(PrivOf(subject)),
                input |-> [fmt |-> "object", r |-> Ok(PrivOf(subject)),
                           of |-> subject, fresh |-> TRUE]]
  /\ exported' = NoExport
  /\ UNCHANGED <<shared, calls, strict, subject, runs>>
  /\ UNCHANGED aside

\* kp.priv() / kp.pub()
DoHalf(half) ==
  /\ subject.cls = "KeyPair"
  /\ subject' = [subject EXCEPT
                   !.cls = IF half = "priv" THEN "PrivKey" ELSE "PubKey",
                   !.v = subject.v[half],
                   !.chain = "mixed"]
  /\ exported' = NoExport
  /\ result' = NoResult
  /\ UNCHANGED <<shared, calls, strict, runs>>
  /\ UNCHANGED aside

\* raw private key and JWK a caller puts together of a scalar d and of the
\* point of a scalar e
CallerRaw(d, e) ==
  Let(GMul(e), LAMBDA p :
      <<4>> \o IntToBytes(p.x, KeyLen) \o IntToBytes(p.y, KeyLen)
            \o IntToBytes(d, KeyLen))

CallerJwk(d, e) ==
  Let(GMul(e), LAMBDA p :
      [crv |-> <<"P", "-", "2", "5", "6">>,
       d |-> JwkEncode(IntToBytes(d, KeyLen)),
       kty |-> <<"E", "C">>,
       x |-> JwkEncode(IntToBytes(p.x, KeyLen)),
       y |-> JwkEncode(IntToBytes(p.y, KeyLen))])

\* the scalars whose point a caller may put next to the scalar d: d itself
\* and another one
PointsFor(d) == {d, (d % MaxD) + 1}

\* cls.fromRaw(raw), cls.fromJwk(jwk) on a caller's value
DoCallerFromRaw(cls, d, e) ==
  /\ NoRun /\ NoCall /\ subject = NoObject
  /\ Imported(cls, "raw", CallerInput("raw", CallerRaw(d, e)))
  /\ exported' = NoExport
  /\ UNCHANGED <<shared, calls, strict, runs>>
  /\ UNCHANGED aside

DoCallerFromJwk(cls, d, e) ==
  /\ NoRun /\ NoCall /\ subject = NoObject
  /\ Imported(cls, "jwk", CallerInput("jwk", CallerJwk(d, e)))
  /\ exported' = NoExport
  /\ UNCHANGED <<shared, calls, strict, runs>>
  /\ UNCHANGED aside

\* cls.fromSeed(seed) is called: the second run is given the seed of the
\* first
StartRun(i, cls, seed) ==
  /\ subject = NoObject /\ exported = NoExport /\ result = NoResult
  /\ NoCall
  /\ runs[i].st = "idle"
  /\ IF i = 1 THEN runs[2].st = "idle"
              ELSE runs[1].st # "idle" /\ seed = runs[1].seed
  /\ runs' = [runs EXCEPT ![i] = [cls |-> cls, seed |-> seed, cur |-> seed,
                                  attempts |-> 0, st |-> "running",
                                  key |-> <<>>]]
  /\ UNCHANGED <<shared, calls, strict, subject, exported, result>>
  /\ UNCHANGED aside

\* the next round of a fromSeed run
StepRun(i) ==
  /\ runs[i].st = "running"
  /\ runs' = [runs EXCEPT ![i] = SeedAttempt(runs[i])]
  /\ UNCHANGED <<shared, calls, strict, subject, exported, result>>
  /\ UNCHANGED aside

\* cls.fromJwk(jwk) on a caller's new object, not awaited
CallFromJwk(cls, d, e) ==
  /\ NoRun /\ NoCall /\ subject = NoObject /\ result = NoResult
  /\ shared' = JwkWritten(NewCall(cls).pc, CallerJwk(d, e))
  /\ calls' = [calls EXCEPT ![1] =
                 [CallResumed(NewCall(cls),
                              JwkAwaited(NewCall(cls).pc, CallerJwk(d, e)))
                    EXCEPT !.arg = CallerJwk(d, e)]]
  /\ UNCHANGED <<strict, subject, exported, result, runs>>
  /\ UNCHANGED aside

\* a second call, on the object of the first one
CallFromJwkAgain(cls) ==
  /\ calls[1].pc # "idle" /\ calls[2].pc = "idle"
  /\ shared' = JwkWritten(NewCall(cls).pc, shared)
  /\ calls' = [calls EXCEPT ![2] =
                 [CallResumed(NewCall(cls),
                              JwkAwaited(NewCall(cls).pc, shared))
                    EXCEPT !.overlap = calls[1].pc # "done",
                           !.arg = calls[1].arg]]
  /\ UNCHANGED <<strict, subject, exported, result, runs>>
  /\ UNCHANGED aside

\* a call goes on after its await, up to its next await or to its end
StepCall(i) ==
  /\ calls[i].pc \notin {"idle", "done"}
  /\ shared' = JwkWritten(calls[i].pc, shared)
  /\ calls' = [calls EXCEPT ![i] =
                 CallResumed(calls[i], JwkAwaited(calls[i].pc, shared))]
  /\ UNCHANGED <<strict, subject, exported, result, runs>>
  /\ UNCHANGED aside

Next ==
  \/ \E cls \in {"PrivKey", "KeyPair"}, d \in 1..MaxD : DoFromRandom(cls, d)
  \/ \E fmt \in PrivFormats \cup PubFormats : DoExport(fmt)
  \/ \E cls \in {"PrivKey", "KeyPair", "PubKey"} : DoImport(cls)
  \/ DoFromJwkCoordinates
  \/ DoFromPrivKey
  \/ \E half \in {"priv", "pub"} : DoHalf(half)
  \/ \E cls \in {"PrivKey", "KeyPair"}, d \in 1..MaxD :
       \E e \in PointsFor(d) : DoCallerFromRaw(cls, d, e)
  \/ \E cls \in {"PrivKey", "KeyPair"}, d \in 1..MaxD :
       \E e \in PointsFor(d) : DoCallerFromJwk(cls, d, e)
  \/ \E i \in 1..2, cls \in {"PrivKey", "KeyPair"}, seed \in Seeds :
       StartRun(i, cls, seed)
  \/ \E i \in 1..2 : StepRun(i)
  \/ \E cls \in {"PrivKey", "KeyPair", "PubKey"}, d \in 1..MaxD :
       \E e \in PointsFor(d) : CallFromJwk(cls, d, e)
  \/ \E cls \in {"PrivKey", "KeyPair", "PubKey"} : CallFromJwkAgain(cls)
  \/ \E i \in 1..2 : StepCall(i)

Spec == Init /\ [][Next]_vars

\* ---------------------------------------------------------------- claims
\* the last operation imported, as cls and in format fmt, what an object of
\* class cls had just exported in that format
FreshRoundTrip(cls, fmt) ==
  /\ result.op = OpName(cls, fmt)
  /\ result.input.fresh
  /\ result.input.of.cls = cls

\* a handle of a valid key: 0 < d < n and the point is d * G
ValidHandle(h) ==
  /\ h.d \in 1..(CurveN - 1)
  /\ GMul(h.d) = Point(h.x, h.y)

ValidPrivKey(k) == ValidHandle(k.ecdh) /\ ValidHandle(k.ecdsa)

ValidKeyPair(kp) ==
  /\ ValidPrivKey(kp.priv)
  /\ \A h \in {kp.pub.ecdh, kp.pub.ecdsa} :
       Point(h.x, h.y) = GMul(kp.priv.ecdh.d)

\* a coordinate whose first byte is zero
ShortCoordinate(c) == c < 256

\* C1: for every valid private key k, whatever the bytes of its public
\* coordinates, PrivKey.fromD(await k.toD()) succeeds and has the key
\* material of k, and KeyPair.fromD(await kp.toD()) equals kp in both halves.
C1_ScalarRoundTrip ==
  /\ (FreshRoundTrip("PrivKey", "d") /\ ValidPrivKey(result.input.of.v))
       => /\ result.r.ok
          /\ Material("PrivKey", result.r.val)
               = Material("PrivKey", result.input.of.v)
  /\ (FreshRoundTrip("KeyPair", "d") /\ ValidKeyPair(result.input.of.v))
       => /\ result.r.ok
          /\ result.r.val.priv = result.input.of.v.priv
          /\ result.r.val.pub = result.input.of.v.pub

RECURSIVE StripZeroBytes(_)
StripZeroBytes(b) ==
  IF b # <<>> /\ Head(b) = 0 THEN StripZeroBytes(Tail(b)) ELSE b

IsScalar(b) ==
  Let(StripZeroBytes(b), LAMBDA nb :
      Len(nb) <= KeyLen /\ BytesToInt(nb) \in 1..(CurveN - 1))

ScalarOf(b) == BytesToInt(StripZeroBytes(b))

RECURSIVE FirstScalar(_, _)
\* the first scalar of the chain s, SHA-256(s), ... within the rounds
\* followed, and its index
FirstScalar(s, k) ==
  IF IsScalar(s) THEN [found |-> TRUE, idx |-> k, d |-> ScalarOf(s)]
  ELSE IF k + 1 >= MaxAttempts THEN [found |-> FALSE, idx |-> k, d |-> 0]
  ELSE FirstScalar(digest(s), k + 1)

\* C3: the key that fromSeed(seed) returns, for a seed of any length, has as
\* its scalar the first element of seed, SHA-256(seed), ... that is a valid
\* scalar, and its point is d * G; no valid element is skipped.
C3_SeedDerivation ==
  \A i \in 1..2 :
    Let(FirstScalar(runs[i].seed, 0), LAMBDA f :
        /\ runs[i].st = "done"
          => /\ f.found
             /\ runs[i].attempts = f.idx + 1
             /\ Material(runs[i].cls, runs[i].key)
                  = <<f.d, GMul(f.d).x, GMul(f.d).y>>
        /\ runs[i].st = "capped" => ~f.found)

\* a reachable run that C3 is about: a seed that is not a scalar, rehashed
C3_Witness ==
  \E i \in 1..2 :
    /\ runs[i].st = "done"
    /\ runs[i].attempts >= 2
    /\ FirstScalar(runs[i].seed, 0).found

\* C4: for every valid private key k, PrivKey.fromRaw(await k.toRaw()) has
\* the key material of k: fromRaw puts the last KeyLen bytes of the raw
\* buffer behind the first header and the two coordinates behind the
\* second one, which is the PKCS#8 export of k again.
C4_RawRoundTrip ==
  (FreshRoundTrip("PrivKey", "raw") /\ ValidPrivKey(result.input.of.v))
    => Let(result.input.r.val, LAMBDA raw :
       Let(result.input.of.v, LAMBDA k :
           /\ result.r.ok
           /\ Material("PrivKey", result.r.val) = Material("PrivKey", k)
           /\ result.r.val = k
           /\ Len(raw) = RawPrivLen
           /\ FromRaw_pkcs8(raw) =
                Ok(pkcs8DHeader \o SubSeq(raw, RawPubLen + 1, RawPrivLen)
                     \o pkcs8XYHeader \o SubSeq(raw, 2, RawPubLen))
           /\ FromRaw_pkcs8(raw) = exportKeyPkcs8(k.ecdh)))

C4_Witness ==
  /\ FreshRoundTrip("PrivKey", "raw")
  /\ ValidPrivKey(result.input.of.v)
  /\ ShortCoordinate(result.input.of.v.ecdh.x)
  /\ result.r.ok

\* C5: for every valid private key k and every format F of pkcs8, jwk, hex,
\* b64, PrivKey.fromF(await k.toF()) is k again, hex and b64 are the texts
\* of the PKCS#8 bytes, and a private key reached from k by any chain of
\* such exports and imports has the key material of k.
C5_ProviderRoundTrips ==
  /\ \A fmt \in ProviderFormats :
       (FreshRoundTrip("PrivKey", fmt) /\ ValidPrivKey(result.input.of.v))
         => /\ result.r.ok
            /\ result.r.val = result.input.of.v
  /\ (exported.fresh /\ exported.of.cls = "PrivKey" /\ exported.fmt = "hex")
       => /\ exported.r.ok
          /\ Len(exported.r.val) = 2 * Pkcs8Len
          /\ \A i \in 1..Pkcs8Len :
               HexVal(exported.r.val[2 * i - 1]) * 16
                 + HexVal(exported.r.val[2 * i])
                 = exportKeyPkcs8(exported.of.v.ecdh).val[i]
  /\ (exported.fresh /\ exported.of.cls = "PrivKey" /\ exported.fmt = "b64")
       => /\ exported.r.ok
          /\ Len(exported.r.val) = 4 * ((Pkcs8Len + 2) \div 3)
          /\ atob(exported.r.val)
               = exportKeyPkcs8(exported.of.v.ecdh)
  /\ (subject.cls = "PrivKey" /\ subject.chain = "provider")
       => Material("PrivKey", subject.v) = subject.root

C5_Witness ==
  /\ FreshRoundTrip("PrivKey", "hex")
  /\ ValidPrivKey(result.input.of.v)
  /\ result.input.of.origin = "random"
  /\ result.input.of.root = Material("PrivKey", result.input.of.v)
  /\ ShortCoordinate(result.input.of.v.ecdh.y)
  /\ subject.chain = "provider"
  /\ result.r.ok

\* the KeyPair invariant: the point of the public half is the scalar of the
\* private half times G
KeyPairInvariant(kp) ==
  \A h \in {kp.pub.ecdh, kp.pub.ecdsa} :
    Point(h.x, h.y) = GMul(kp.priv.ecdh.d)

\* C6: every KeyPair that KeyPair.fromD, fromSeed, fromRandom, fromRaw or
\* fromJwk returns has a public half whose point is the scalar of the
\* private half times G.
C6_KeyPairInvariant ==
  /\ \A fmt \in {"d", "random", "raw", "jwk"} :
       (result.op = OpName("KeyPair", fmt) /\ result.r.ok)
         => KeyPairInvariant(result.r.val)
  /\ \A i \in 1..2 :
       (runs[i].cls = "KeyPair" /\ runs[i].st = "done")
         => KeyPairInvariant(runs[i].key)

\* C7: for every KeyPair kp made by fromRandom and every format F of pkcs8,
\* raw, jwk, hex, b64, KeyPair.fromF(await kp.toF()) has the private half
\* and the public half of kp, and kp.toF() is kp.priv().toF().
C7_KeyPairRoundTrip ==
  /\ \A fmt \in {"pkcs8", "raw", "jwk", "hex", "b64"} :
       (FreshRoundTrip("KeyPair", fmt) /\ result.input.of.origin = "random"
          /\ result.input.of.chain = "provider")
         => /\ result.r.ok
            /\ result.r.val.priv = result.input.of.v.priv
            /\ result.r.val.pub = result.input.of.v.pub
  /\ (exported.fresh /\ exported.of.cls = "KeyPair")
       => exported.r = Export("PrivKey", exported.fmt, exported.of.v.priv)

C7_Witness ==
  /\ FreshRoundTrip("KeyPair", "pkcs8")
  /\ result.input.of.origin = "random"
  /\ result.input.of.chain = "provider"
  /\ ShortCoordinate(result.input.of.v.pub.ecdh.x)
  /\ result.r.ok

\* C8: for every KeyPair kp that the library made, PubKey.fromPrivKey(kp.priv())
\* has the point of kp.pub() (it is kp.pub()), and the caller's key pair is
\* after the derivation what it was before.
C8_PublicKeyDerivation ==
  (result.op = OpName("PubKey", "PrivKey") /\ result.input.of.cls = "KeyPair")
    => /\ result.r.ok
       /\ <<result.r.val.ecdh.x, result.r.val.ecdh.y>>
            = <<result.input.of.v.pub.ecdh.x, result.input.of.v.pub.ecdh.y>>
       /\ result.r.val = result.input.of.v.pub
       /\ subject = result.input.of
       /\ Export("KeyPair", "d", subject.v)
            = Ok(IntToBytes(result.input.r.val.ecdh.d, KeyLen))

C8_Witness ==
  /\ result.op = OpName("PubKey", "PrivKey")
  /\ result.input.of.cls = "KeyPair"
  /\ result.input.of.origin = "caller"
  /\ result.r.ok

\* C9: for every valid PubKey p, toCoordinates returns the two halves of the
\* raw export behind its first byte, each of KeyLen bytes, and
\* fromCoordinates(x, y) builds 0x04, x, y and is p again; the same with x
\* and y decoded from the fields of the JWK of p.
C9_CoordinateRoundTrip ==
  /\ (exported.fresh /\ exported.fmt = "coordinates")
       => Let(exportKeyRaw(exported.of.v.ecdh).val, LAMBDA raw :
          Let(exported.r.val, LAMBDA c :
              /\ exported.r.ok
              /\ Len(c.x) = KeyLen /\ Len(c.y) = KeyLen
              /\ c.x = SubSeq(raw, 2, 1 + KeyLen)
              /\ c.y = SubSeq(raw, 2 + KeyLen, 1 + 2 * KeyLen)
              /\ FromCoordinates_raw(c.x, c.y) = Ok(<<4>> \o c.x \o c.y)))
  /\ FreshRoundTrip("PubKey", "coordinates")
       => /\ result.r.ok
          /\ result.r.val = result.input.of.v
  /\ (result.op = OpName("PubKey", "jwk-coordinates") /\ result.input.fresh)
       => /\ result.r.ok
          /\ result.r.val = result.input.of.v

C9_Witness ==
  /\ FreshRoundTrip("PubKey", "coordinates")
  /\ ShortCoordinate(result.input.of.v.ecdh.x)
  /\ result.r.ok

\* C10: for every valid PubKey p and every format F of spki, raw, jwk, hex,
\* b64, PubKey.fromF(await p.toF()) has the point of p, and the raw export
\* is RawPubLen bytes that start with 0x04.
C10_PubKeyRoundTrips ==
  /\ \A fmt \in {"spki", "raw", "jwk", "hex", "b64"} :
       FreshRoundTrip("PubKey", fmt)
         => /\ result.r.ok
            /\ Material("PubKey", result.r.val)
                 = Material("PubKey", result.input.of.v)
            /\ result.r.val = result.input.of.v
  /\ (exported.fresh /\ exported.of.cls = "PubKey" /\ exported.fmt = "raw")
       => /\ exported.r.ok
          /\ Len(exported.r.val) = RawPubLen
          /\ exported.r.val[1] = 4

C10_Witness ==
  /\ FreshRoundTrip("PubKey", "b64")
  /\ ShortCoordinate(result.input.of.v.ecdh.y)
  /\ result.r.ok

\* ----------------------------------------------------- Crypto, end to end
\* the data, the nonces of the provider, the iv arguments and the random
\* bytes of a generated iv
Data == {<<>>, <<116, 101>>}

Nonces == {1, 2}

Ivs == {NoIv, [i \in 1..12 |-> 7]}

RandomIvs == {[i \in 1..IvLen |-> b] : b \in {0, 255}}

\* alice = await KeyPair.fromRandom(), bob = await KeyPair.fromRandom()
CryptoKeys(da, db) ==
  /\ alice = NoObject
  /\ alice' = NewObject("KeyPair", KeyPair_fromRandom(da).val, "random")
  /\ bob' = NewObject("KeyPair", KeyPair_fromRandom(db).val, "random")
  /\ UNCHANGED <<strict, keyVars, signed, verdict, envelope, plain>>
  /\ UNCHANGED cryptoAside

\* kp, kp.priv() or kp.pub() as the argument of Crypto
As(kp, form) ==
  IF form = "KeyPair" THEN [cls |-> "KeyPair", v |-> kp.v]
  ELSE IF form = "PrivKey" THEN [cls |-> "PrivKey", v |-> kp.v.priv]
  ELSE [cls |-> "PubKey", v |-> kp.v.pub]

\* Crypto.sign(alice, data) / Crypto.sign(alice.priv(), data)
DoSign(form, data, nonce) ==
  /\ alice # NoObject
  /\ signed' = [as |-> form, data |-> data,
                r |-> Crypto_sign(As(alice, form), data, nonce)]
  /\ verdict' = NoVerdict
  /\ envelope' = NoEnvelope
  /\ plain' = NoPlain
  /\ UNCHANGED <<strict, keyVars, alice, bob>>
  /\ UNCHANGED cryptoAside

\* Crypto.verify(kp, data, signature) / Crypto.verify(kp.pub(), ...) with
\* the key pair of who
DoVerify(who, form, data) ==
  /\ signed.r.ok
  /\ verdict' = [who |-> who, as |-> form, data |-> data, signed |-> signed,
                 r |-> Crypto_verify(As(IF who = "alice" THEN alice ELSE bob,
                                        form),
                                     data, signed.r.val)]
  /\ UNCHANGED <<strict, keyVars, alice, bob, signed, envelope, plain>>
  /\ UNCHANGED cryptoAside

\* Crypto.encrypt(alice or alice.priv(), bob or bob.pub(), data, iv)
DoEncrypt(aliceAs, bobAs, data, iv, random) ==
  /\ alice # NoObject
  /\ envelope' = [alice |-> aliceAs, bob |-> bobAs, data |-> data, iv |-> iv,
                   random |-> random,
                   r |-> Crypto_encrypt(As(alice, aliceAs), As(bob, bobAs),
                                        data, iv, random)]
  /\ plain' = NoPlain
  /\ signed' = NoSigned
  /\ verdict' = NoVerdict
  /\ UNCHANGED <<strict, keyVars, alice, bob>>
  /\ UNCHANGED cryptoAside

\* Crypto.decrypt(alice or alice.pub(), bob or bob.priv(),
\* enc.encryptedData, enc.iv)
DoDecrypt(aliceAs, bobAs) ==
  /\ envelope.r.ok
  /\ plain' = [alice |-> aliceAs, bob |-> bobAs, of |-> envelope,
               r |-> Crypto_decrypt(As(alice, aliceAs), As(bob, bobAs),
                                    envelope.r.val.encryptedData,
                                    envelope.r.val.iv)]
  /\ UNCHANGED <<strict, keyVars, alice, bob, signed, verdict, envelope>>
  /\ UNCHANGED cryptoAside

CryptoInit ==
  /\ strict \in BOOLEAN
  /\ IdleKeys
  /\ IdleCrypto
  /\ IdleConvert
  /\ IdleFrom
  /\ IdlePair

CryptoNext ==
  \/ \E da \in 1..MaxD, db \in 1..MaxD : CryptoKeys(da, db)
  \/ \E form \in {"KeyPair", "PrivKey"}, data \in Data, nonce \in Nonces :
       DoSign(form, data, nonce)
  \/ \E who \in {"alice", "bob"}, form \in {"KeyPair", "PubKey"},
        data \in Data : DoVerify(who, form, data)
  \/ \E aliceAs \in {"KeyPair", "PrivKey"}, bobAs \in {"KeyPair", "PubKey"},
        data \in Data, iv \in Ivs, random \in RandomIvs :
       DoEncrypt(aliceAs, bobAs, data, iv, random)
  \/ \E aliceAs \in {"KeyPair", "PubKey"}, bobAs \in {"KeyPair", "PrivKey"} :
       DoDecrypt(aliceAs, bobAs)

CryptoSpec == CryptoInit /\ [][CryptoNext]_vars

\* ------------------------------------------------------- Convert, applied
MaxBufLen == 3

\* bytes below 0x10, and bytes that give '+', '/' and every padding
Bytes == {0, 15, 65, 251, 255}

RECURSIVE Buffers(_)
\* the buffers of up to n bytes
Buffers(n) ==
  IF n = 0 THEN {<<>>}
  ELSE Buffers(n - 1)
       \cup {Append(b, x) : b \in {c \in Buffers(n - 1) : Len(c) = n - 1},
                            x \in Bytes}

\* Convert.arrayBufferToHexString(buffer)
ToHexString ==
  /\ text' = [fmt |-> "hex", str |-> arrayBufferToHexString(buffer)]
  /\ back' = NoBack
  /\ UNCHANGED <<strict, keyVars, cryptoVars, buffer>>
  /\ UNCHANGED convertAside

\* Convert.arrayBufferToBase64(buffer)
ToBase64 ==
  /\ text' = [fmt |-> "b64", str |-> arrayBufferToBase64(buffer)]
  /\ back' = NoBack
  /\ UNCHANGED <<strict, keyVars, cryptoVars, buffer>>
  /\ UNCHANGED convertAside

\* Convert.arrayBufferToUrlBase64(buffer)
ToUrlBase64 ==
  /\ text' = [fmt |-> "ub64", str |-> arrayBufferToUrlBase64(buffer)]
  /\ back' = NoBack
  /\ UNCHANGED <<strict, keyVars, cryptoVars, buffer>>
  /\ UNCHANGED convertAside

\* Convert.base64ToUrlBase64(b64) of a base64 string
Base64ToUrlBase64 ==
  /\ text.fmt \in {"b64", "ub64 to b64"}
  /\ text' = [fmt |-> "b64 to ub64", str |-> base64ToUrlBase64(text.str)]
  /\ back' = NoBack
  /\ UNCHANGED <<strict, keyVars, cryptoVars, buffer>>
  /\ UNCHANGED convertAside

\* Convert.urlBase64ToBase64(ub64) of a URL-safe base64 string
UrlBase64ToBase64 ==
  /\ text.fmt \in {"ub64", "b64 to ub64"}
  /\ text' = [fmt |-> "ub64 to b64", str |-> urlBase64ToBase64(text.str)]
  /\ back' = NoBack
  /\ UNCHANGED <<strict, keyVars, cryptoVars, buffer>>
  /\ UNCHANGED convertAside

\* Convert.hexStringToArrayBuffer(text) / base64ToArrayBuffer(text) /
\* urlBase64ToArrayBuffer(text)
ToArrayBuffer ==
  /\ text.fmt # "none"
  /\ back' = [fmt |-> text.fmt,
              r |-> IF text.fmt \in {"hex", "caller hex"}
                    THEN Ok(hexStringToArrayBuffer(text.str))
                    ELSE IF text.fmt \in {"b64", "ub64 to b64"}
                    THEN base64ToArrayBuffer(text.str)
                    ELSE urlBase64ToArrayBuffer(text.str)]
  /\ UNCHANGED <<strict, keyVars, cryptoVars, buffer, text>>
  /\ UNCHANGED convertAside

MaxHexLen == 3

\* digits of both cases and a character that is no hex digit
HexChars == {"0", "1", "a", "F", "g"}

\* the strings that a caller hands to hexStringToArrayBuffer
HexTexts == SeqsUpTo(HexChars, MaxHexLen)

\* a caller has the string hex, not made by arrayBufferToHexString
CallerHexString(hex) == [fmt |-> "caller hex", str |-> hex]

\* the caller has a buffer, or a string to decode
ConvertInit ==
  /\ strict \in BOOLEAN
  /\ IdleKeys
  /\ IdleCrypto
  /\ \/ buffer \in Buffers(MaxBufLen) /\ text = NoText
     \/ buffer = <<>> /\ text \in {CallerHexString(hex) : hex \in HexTexts}
  /\ back = NoBack
  /\ IdleFrom
  /\ IdlePair

ConvertNext ==
  \/ ToHexString
  \/ ToBase64
  \/ ToUrlBase64
  \/ Base64ToUrlBase64
  \/ UrlBase64ToBase64
  \/ ToArrayBuffer

ConvertSpec == ConvertInit /\ [][ConvertNext]_vars

\* ------------------- PrivKey and PubKey with from(type, ...args) / export
\* the outcome r of an async method and the number n of calls of the
\* provider it has issued
Traced(r, n) == [r |-> r, n |-> n]

\* t, and when it has not thrown, F of its value: the calls add up
AndThen(t, F(_)) ==
  IF ~t.r.ok THEN t
  ELSE Let(F(t.r.val), LAMBDA u : Traced(u.r, t.n + u.n))

OldPrivKey_fromPkcs8(buf) ==
  AndThen(Traced(importKeyPkcs8(buf, "ECDH", {"deriveKey"}), 1), LAMBDA ecdh :
  AndThen(Traced(importKeyPkcs8(buf, "ECDSA", {"sign"}), 1), LAMBDA ecdsa :
          Traced(Ok(PrivKey(ecdh, ecdsa)), 0)))

OldPrivKey_fromBase64(b64) ==
  AndThen(Traced(base64ToArrayBuffer(b64), 0), LAMBDA buf :
          OldPrivKey_fromPkcs8(buf))

OldPrivKey_fromHexString(hex) ==
  OldPrivKey_fromPkcs8(hexStringToArrayBuffer(hex))

OldPrivKey_fromJwk(jwk) ==
  AndThen(Traced(importKeyJwk(SetField(jwk, "key_ops", <<"deriveKey">>),
                              "ECDH", {"deriveKey"}), 1), LAMBDA ecdh :
  AndThen(Traced(importKeyJwk(SetField(jwk, "key_ops", <<"sign">>),
                              "ECDSA", {"sign"}), 1), LAMBDA ecdsa :
          Traced(Ok(PrivKey(ecdh, ecdsa)), 0)))

\* the jwk that fromRawD builds of dBuf, or what building it throws
FromRawD_jwk(dBuf) ==
  Let(arrayBufferToHexString(dBuf), LAMBDA hexD :
  Let(BigInteger(hexD), LAMBDA bigIntD :
  Let(GMultiply(bigIntD), LAMBDA p :
  Let(PointGetX(p), LAMBDA bigIntX :
  Let(BigIntToString16(bigIntX), LAMBDA hexX :
  Let(hexStringToArrayBuffer(hexX), LAMBDA rawX :
  Let(PointGetY(p), LAMBDA bigIntY :
  Let(BigIntToString16(bigIntY), LAMBDA hexY :
  Let(hexStringToArrayBuffer(hexY), LAMBDA rawY :
      IF p.inf THEN Thrown("TypeError")
      ELSE Ok([crv |-> <<"P", "-", "2", "5", "6">>,
               d |-> arrayBufferToUrlBase64(dBuf),
               ext |-> TRUE,
               key_ops |-> <<"deriveKey">>,
               kty |-> <<"E", "C">>,
               x |-> arrayBufferToUrlBase64(rawX),
               y |-> arrayBufferToUrlBase64(rawY)]))))))))))

OldPrivKey_fromRawD(dBuf) ==
  AndThen(Traced(FromRawD_jwk(dBuf), 0), LAMBDA jwk : OldPrivKey_fromJwk(jwk))

OldPrivKey_fromD(d) ==
  AndThen(Traced(urlBase64ToArrayBuffer(d), 0), LAMBDA dBuf :
          OldPrivKey_fromRawD(dBuf))

RECURSIVE OldPrivKey_fromSeed(_, _)
\* try fromRawD(seed), catch: fromSeed(digest(seed)); a call that has not
\* returned after rounds more rounds is left pending
OldPrivKey_fromSeed(seed, rounds) ==
  Let(OldPrivKey_fromRawD(seed), LAMBDA key :
      IF key.r.ok THEN key
      ELSE IF rounds = 0 THEN Traced(Thrown("pending"), key.n)
      ELSE Let(OldPrivKey_fromSeed(digest(seed), rounds - 1), LAMBDA rest :
               Traced(rest.r, key.n + 1 + rest.n)))

\* fromRandom when generateKey draws the scalar d
OldPrivKey_fromRandom(d) ==
  AndThen(Traced(Ok(generateKey(d)), 1), LAMBDA privateKey :
  AndThen(Traced(Ok(exportKeyJwk(privateKey)), 1), LAMBDA jwk :
          OldPrivKey_fromJwk(jwk)))

\* return this.fromF(...args): the method that from has called, with its
\* outcome
Dispatched(via, t) == [via |-> via, r |-> t.r, n |-> t.n]

\* an unknown type is handed to fromPkcs8
OldPrivKey_from_default(type, arg) ==
  CASE type = "b64" -> Dispatched("fromBase64", OldPrivKey_fromBase64(arg))
    [] type = "hex" -> Dispatched("fromHexString", OldPrivKey_fromHexString(arg))
    [] type = "jwk" -> Dispatched("fromJwk", OldPrivKey_fromJwk(arg))
    [] type = "d" -> Dispatched("fromD", OldPrivKey_fromD(arg))
    [] type = "seed" ->
         Dispatched("fromSeed", OldPrivKey_fromSeed(arg, MaxAttempts))
    [] type = "random" -> Dispatched("fromRandom", OldPrivKey_fromRandom(arg))
    [] OTHER -> Dispatched("fromPkcs8", OldPrivKey_fromPkcs8(arg))

\* PrivKey.from(type, ...args); for 'random' arg is the scalar drawn
OldPrivKey_from(type, arg) ==
  CASE type = "b64" -> Dispatched("fromBase64", OldPrivKey_fromBase64(arg))
    [] type = "hex" -> Dispatched("fromHexString", OldPrivKey_fromHexString(arg))
    [] type = "pkcs8" -> Dispatched("fromPkcs8", OldPrivKey_fromPkcs8(arg))
    [] type = "jwk" -> Dispatched("fromJwk", OldPrivKey_fromJwk(arg))
    [] type = "d" -> Dispatched("fromD", OldPrivKey_fromD(arg))
    [] type = "seed" ->
         Dispatched("fromSeed", OldPrivKey_fromSeed(arg, MaxAttempts))
    [] type = "random" -> Dispatched("fromRandom", OldPrivKey_fromRandom(arg))
    [] OTHER ->
         Dispatched("none",
                    Traced(Thrown("Can't create Priv key from unknown type"),
                           0))

OldPubKey_fromSpki(pubBuf) ==
  AndThen(Traced(importKeySpki(pubBuf, "ECDH", {}), 1), LAMBDA ecdh :
  AndThen(Traced(importKeySpki(pubBuf, "ECDSA", {"verify"}), 1), LAMBDA ecdsa :
          Traced(Ok(PubKey(ecdh, ecdsa)), 0)))

OldPubKey_fromBase64(b64) ==
  AndThen(Traced(base64ToArrayBuffer(b64), 0), LAMBDA pubBuf :
          OldPubKey_fromSpki(pubBuf))

OldPubKey_fromJwk(jwk) ==
  Let(DeleteField(jwk, "d"), LAMBDA pubJwk :
  AndThen(Traced(importKeyJwk(SetField(pubJwk, "key_ops", <<>>), "ECDH", {}),
                 1), LAMBDA ecdh :
  AndThen(Traced(importKeyJwk(SetField(pubJwk, "key_ops", <<"verify">>),
                              "ECDSA", {"verify"}), 1), LAMBDA ecdsa :
          Traced(Ok(PubKey(ecdh, ecdsa)), 0))))

OldPubKey_fromRaw(raw) ==
  AndThen(Traced(importKeyRaw(raw, "ECDH", {}), 1), LAMBDA ecdh :
  AndThen(Traced(importKeyRaw(raw, "ECDSA", {"verify"}), 1), LAMBDA ecdsa :
          Traced(Ok(PubKey(ecdh, ecdsa)), 0)))

OldPubKey_fromCoordinates(cx, cy) ==
  AndThen(Traced(FromCoordinates_raw(cx, cy), 0), LAMBDA raw :
          OldPubKey_fromRaw(raw))

OldPubKey_fromHexString(hex) ==
  OldPubKey_fromSpki(hexStringToArrayBuffer(hex))

\* priv.export('jwk'): exportKey('jwk', priv.ecdh())
OldPrivKey_export_jwk(priv) == Traced(Ok(exportKeyJwk(priv.ecdh)), 1)

\* PubKey.fromPrivKey(priv): PubKey.from('jwk', await priv.export('jwk'))
OldPubKey_fromPrivKey(priv) ==
  AndThen(OldPrivKey_export_jwk(priv), LAMBDA jwk : OldPubKey_fromJwk(jwk))

\* PubKey.from(type, ...args); for 'coordinates' arg is [x, y]
OldPubKey_from(type, arg) ==
  CASE type = "b64" -> Dispatched("fromBase64", OldPubKey_fromBase64(arg))
    [] type = "hex" -> Dispatched("fromHexString", OldPubKey_fromHexString(arg))
    [] type = "spki" -> Dispatched("fromSpki", OldPubKey_fromSpki(arg))
    [] type = "jwk" -> Dispatched("fromJwk", OldPubKey_fromJwk(arg))
    [] type = "coordinates" ->
         Dispatched("fromCoordinates", OldPubKey_fromCoordinates(arg.x, arg.y))
    [] type = "raw" -> Dispatched("fromRaw", OldPubKey_fromRaw(arg))
    [] type = "priv" -> Dispatched("fromPrivKey", OldPubKey_fromPrivKey(arg))
    [] OTHER -> Dispatched("none",
                           Traced(Thrown("Unknown type is provided"), 0))

\* the type tags handed to from: those of both classes, and others
Types ==
  {"b64", "hex", "pkcs8", "jwk", "d", "seed", "random", "spki",
   "coordinates", "raw", "priv", "PKCS8", ""}

\* an argument for from(type, ...): the export in that format of the key
\* with scalar d, and the seed for 'seed'
ArgFor(cls, type, d, seed) ==
  Let(PrivKey_fromRandom(d).val, LAMBDA priv :
  Let(PubKey_fromPrivKey(priv).val, LAMBDA pub :
      CASE type = "seed" -> seed
        [] type = "random" -> d
        [] type = "priv" -> priv
        [] type = "d" -> PrivKey_toJwk(priv)["d"]
        [] type = "pkcs8" -> PrivKey_toPkcs8(priv).val
        [] type = "spki" -> PubKey_toSpki(pub).val
        [] type = "raw" -> PubKey_toRaw(pub).val
        [] type = "coordinates" -> PubKey_toCoordinates(pub).val
        [] type = "jwk" ->
             IF cls = "PrivKey" THEN PrivKey_toJwk(priv) ELSE PubKey_toJwk(pub)
        [] type = "hex" ->
             IF cls = "PrivKey" THEN PrivKey_toHex(priv).val
             ELSE PubKey_toHex(pub).val
        [] type = "b64" ->
             IF cls = "PrivKey" THEN PrivKey_toBase64(priv).val
             ELSE PubKey_toBase64(pub).val
        [] OTHER ->
             IF cls = "PrivKey" THEN PrivKey_toPkcs8(priv).val
             ELSE PubKey_toSpki(pub).val))

\* cls.from(type, arg), one call at a time
DoFrom(cls, type, d, seed) ==
  /\ dispatched = NoDispatch
  /\ dispatched' =
       Let(ArgFor(cls, type, d, seed), LAMBDA arg :
       Let(IF cls = "PrivKey" THEN OldPrivKey_from(type, arg)
           ELSE OldPubKey_from(type, arg), LAMBDA f :
           [cls |-> cls, type |-> type, arg |-> arg, via |-> f.via,
            r |-> f.r, n |-> f.n]))
  /\ UNCHANGED <<strict, keyVars, cryptoVars, convertVars, pairVars>>

\* the caller is done with the outcome of from
DropFrom ==
  /\ dispatched # NoDispatch
  /\ dispatched' = NoDispatch
  /\ UNCHANGED <<strict, keyVars, cryptoVars, convertVars, pairVars>>

FromInit ==
  /\ strict \in BOOLEAN
  /\ IdleKeys
  /\ IdleCrypto
  /\ IdleConvert
  /\ IdleFrom
  /\ IdlePair

FromNext ==
  \/ \E cls \in {"PrivKey", "PubKey"}, type \in Types \ {"seed"},
        d \in 1..MaxD : DoFrom(cls, type, d, <<>>)
  \/ \E cls \in {"PrivKey", "PubKey"}, seed \in Seeds :
       DoFrom(cls, "seed", 1, seed)
  \/ DropFrom

FromSpec == FromInit /\ [][FromNext]_vars

\* ---------------------------------------------- fromSeed, round by round
\* PrivKey.fromSeed(seed) and KeyPair.fromSeed(seed) side by side.  The rounds
\* of a call of fromSeed are continuations of promises that the
\* provider resolves: the event loop runs every one of them, so a round that
\* is due is taken (weak fairness of StepRun).
SeedNext ==
  \/ \E seed \in Seeds : StartRun(1, "PrivKey", seed)
  \/ \E seed \in Seeds : StartRun(2, "KeyPair", seed)
  \/ \E i \in 1..2 : StepRun(i)

SeedSpec == Init /\ [][SeedNext]_vars /\ \A i \in 1..2 : WF_vars(StepRun(i))

\* ------------------------------- KeyPair imports, promise by promise
\* KeyPair.fromPkcs8, fromRaw and fromD call PrivKey.fromPkcs8 (or fromRaw)
\* and PubKey.fromRaw one after the other without awaiting, and then await
\* the two promises in new KeyPair(await priv, await pub).  Each of the two
\* promises awaits two imports of the provider in turn.  The provider
\* settles the imports that are pending in any order.
Pending(t) == t.st \in {"ecdh", "ecdsa"}

Settled(t) == t.st \in {"ok", "rejected"}

\* the importKey that the promise t awaits
TaskImport(t) ==
  IF t.fmt = "pkcs8"
  THEN (IF t.st = "ecdh" THEN importKeyPkcs8(t.buf, "ECDH", {"deriveKey"})
                         ELSE importKeyPkcs8(t.buf, "ECDSA", {"sign"}))
  ELSE (IF t.st = "ecdh" THEN importKeyRaw(t.buf, "ECDH", {})
                         ELSE importKeyRaw(t.buf, "ECDSA", {"verify"}))

\* the import that t awaits settles: t goes on to its second import, returns
\* its key or throws what the import threw
TaskSettled(t) ==
  Let(TaskImport(t), LAMBDA r :
      IF ~r.ok THEN [t EXCEPT !.st = "rejected", !.err = r.err]
      ELSE IF t.st = "ecdh" THEN [t EXCEPT !.st = "ecdsa"]
      ELSE [t EXCEPT !.st = "ok"])

\* PrivKey.fromPkcs8(buf) / PubKey.fromRaw(buf) is called and runs to its
\* first await; b is the buffer, or what building it threw inside the
\* async function that should have made the call
NewTask(fmt, b) ==
  IF b.ok THEN [st |-> "ecdh", fmt |-> fmt, buf |-> b.val, err |-> "none"]
  ELSE [st |-> "rejected", fmt |-> fmt, buf |-> <<>>, err |-> b.err]

\* the call throws err: fromSeed catches it and calls digest, any other
\* operation rejects with it
PairFailed(p, err) ==
  IF p.kind = "fromSeed" THEN [p EXCEPT !.pc = "digest"]
  ELSE [p EXCEPT !.pc = "thrown", !.out = Thrown(err)]

\* the two promises are made and the first is awaited
PairAwaiting(p, priv, pub) ==
  [p EXCEPT !.pc = "awaitPriv", !.priv = priv, !.pub = pub]

\* fromD(p.cur) up to its first await: the buffers are built, and an error
\* in building them is thrown before any import is called
PairBegun_fromD(p) ==
  IF p.cls = "PrivKey"
  THEN Let(FromD_pkcs8(p.cur), LAMBDA pkcs8 :
           IF ~pkcs8.ok THEN PairFailed(p, pkcs8.err)
           ELSE PairAwaiting(p, NewTask("pkcs8", pkcs8), NoTask))
  ELSE Let(KeyPair_fromD_buffers(p.cur), LAMBDA built :
           IF built.p.inf THEN PairFailed(p, "TypeError")
           ELSE IF ~built.pkcs8.ok THEN PairFailed(p, built.pkcs8.err)
           ELSE IF ~built.rawPub.ok
           THEN [PairFailed(p, built.rawPub.err) EXCEPT
                   !.left = Append(p.left, NewTask("pkcs8", built.pkcs8))]
           ELSE PairAwaiting(p, NewTask("pkcs8", built.pkcs8),
                                NewTask("raw", built.rawPub)))

\* the call p.kind(p.cur) up to its first await
PairBegun(p) ==
  IF p.kind = "fromPkcs8"
  THEN PairAwaiting(p, NewTask("pkcs8", Ok(p.cur)),
                    NewTask("raw",
                            SetAll(Zeros(RawPubLen),
                                   << <<<<4>>, 0>>,
                                      <<Subarray(p.cur, XOff, Pkcs8Len), 1>> >>)))
  ELSE IF p.kind = "fromRaw"
  THEN PairAwaiting(p, NewTask("pkcs8", FromRaw_pkcs8(p.cur)),
                    NewTask("raw",
                            SetAll(Zeros(RawPubLen),
                                   << <<Subarray(p.cur, 0, RawPubLen), 0>> >>)))
  ELSE PairBegun_fromD(p)

\* the promises that a call goes on without: those that it made and does
\* not await any more
Left(p, ts) == p.left \o SelectSeq(ts, LAMBDA t : t.st # "none")

\* the call goes on after the promise it awaits has settled
PairResumed(p) ==
  IF p.pc = "awaitPriv"
  THEN (IF p.priv.st = "rejected"
        THEN [PairFailed(p, p.priv.err) EXCEPT
                !.left = Left(p, <<p.pub>>), !.pub = NoTask]
        ELSE IF p.pub.st = "none"
        THEN [p EXCEPT !.pc = "returned", !.out = PrivKey_fromPkcs8(p.priv.buf)]
        ELSE [p EXCEPT !.pc = "awaitPub"])
  ELSE (IF p.pub.st = "rejected"
        THEN PairFailed(p, p.pub.err)
        ELSE [p EXCEPT !.pc = "returned",
                       !.out = Let(PrivKey_fromPkcs8(p.priv.buf), LAMBDA priv :
                               Let(PubKey_fromRaw(p.pub.buf), LAMBDA pub :
                                   KeyPair(priv, pub)))])

\* buffers that a caller hands to KeyPair.fromPkcs8 and to KeyPair.fromRaw:
\* of a key, of a scalar next to the point of another one, and of no key
PairRaws ==
  {CallerRaw(d, e) : d \in 1..MaxD, e \in 1..MaxD} \cup {Zeros(RawPrivLen)}

PairPkcs8s ==
  {FromRaw_pkcs8(raw).val : raw \in PairRaws} \cup {Zeros(Pkcs8Len)}

\* cls.kind(input) is called
PairCall(kind, cls, input) ==
  /\ pair = NoPair
  /\ pair' = PairBegun([NoPair EXCEPT !.kind = kind, !.cls = cls,
                                      !.cur = input, !.attempts = 1])
  /\ UNCHANGED <<strict, keyVars, cryptoVars, convertVars, fromVars>>

\* the provider settles the import that the private (which = "priv") or
\* the public half awaits
PairSettle(which) ==
  /\ Pending(pair[which])
  /\ pair' = [pair EXCEPT ![which] = TaskSettled(pair[which])]
  /\ UNCHANGED <<strict, keyVars, cryptoVars, convertVars, fromVars>>

\* the provider settles the import that a promise left behind awaits
LeftSettle(j) ==
  /\ j \in 1..Len(pair.left)
  /\ Pending(pair.left[j])
  /\ pair' = [pair EXCEPT !.left[j] = TaskSettled(pair.left[j])]
  /\ UNCHANGED <<strict, keyVars, cryptoVars, convertVars, fromVars>>

\* the promise that the call awaits has settled: the call goes on
PairResume ==
  /\ \/ pair.pc = "awaitPriv" /\ Settled(pair.priv)
     \/ pair.pc = "awaitPub" /\ Settled(pair.pub)
  /\ pair' = PairResumed(pair)
  /\ UNCHANGED <<strict, keyVars, cryptoVars, convertVars, fromVars>>

\* digest('SHA-256', seed) settles in the catch of fromSeed, and
\* fromSeed(digest) runs to its first await
PairDigest ==
  /\ pair.pc = "digest"
  /\ pair' = IF pair.attempts >= MaxAttempts
             THEN [pair EXCEPT !.pc = "capped"]
             ELSE PairBegun_fromD([pair EXCEPT !.cur = digest(pair.cur),
                                               !.attempts = pair.attempts + 1,
                                               !.priv = NoTask,
                                               !.pub = NoTask])
  /\ UNCHANGED <<strict, keyVars, cryptoVars, convertVars, fromVars>>

\* the caller has its result and the provider has nothing left to settle
PairDrop ==
  /\ pair.pc \in {"returned", "thrown", "capped"}
  /\ \A j \in 1..Len(pair.left) : ~Pending(pair.left[j])
  /\ pair' = NoPair
  /\ UNCHANGED <<strict, keyVars, cryptoVars, convertVars, fromVars>>

PairNext ==
  \/ \E b \in PairPkcs8s : PairCall("fromPkcs8", "KeyPair", b)
  \/ \E raw \in PairRaws : PairCall("fromRaw", "KeyPair", raw)
  \/ \E cls \in {"PrivKey", "KeyPair"}, seed \in Seeds :
       PairCall("fromSeed", cls, seed)
  \/ \E cls \in {"PrivKey", "KeyPair"},
        dBuf \in {s \in Seeds : Len(s) = KeyLen} : PairCall("fromD", cls, dBuf)
  \/ \E which \in {"priv", "pub"} : PairSettle(which)
  \/ \E j \in 1..MaxAttempts : LeftSettle(j)
  \/ PairResume
  \/ PairDigest
  \/ PairDrop

PairSpec == Init /\ [][PairNext]_vars

\* the two handles of a PrivKey or of a PubKey hold the same key
Lockstep(k) ==
  /\ k.ecdh.algo = "ECDH" /\ k.ecdsa.algo = "ECDSA"
  /\ k.ecdh.type = k.ecdsa.type
  /\ k.ecdh.d = k.ecdsa.d
  /\ k.ecdh.x = k.ecdsa.x
  /\ k.ecdh.y = k.ecdsa.y

LockstepOf(cls, v) ==
  IF cls = "KeyPair" THEN Lockstep(v.priv) /\ Lockstep(v.pub)
  ELSE Lockstep(v)

\* C11: in every reachable state the ECDH handle and the ECDSA handle of
\* every PrivKey and of every PubKey that the library returned hold the same
\* scalar and the same point, also when two calls of fromJwk run on one JWK
\* object from await to await.
C11_HandlesInLockstep ==
  /\ subject.cls # "none" => LockstepOf(subject.cls, subject.v)
  /\ result.r.ok => LockstepOf(result.op[1], result.r.val)
  /\ \A i \in 1..2 :
       /\ runs[i].st = "done" => LockstepOf(runs[i].cls, runs[i].key)
       /\ (calls[i].pc = "done" /\ calls[i].r.ok)
            => LockstepOf(calls[i].cls, calls[i].r.val)
       /\ calls[i].pc = "pub.ecdh" => Lockstep(calls[i].priv)

C11_Witness ==
  /\ calls[2].overlap
  /\ calls[1].pc = "done" /\ calls[2].pc = "done"
  /\ calls[1].cls = "KeyPair" /\ ~calls[1].r.ok
  /\ calls[2].cls = "PubKey" /\ calls[2].r.ok

\* alice and bob have different keys
DifferentKeys ==
  /\ alice # NoObject
  /\ Material("KeyPair", alice.v) # Material("KeyPair", bob.v)

\* C12: sign succeeds on the ECDSA handle of alice's private key, given as
\* a KeyPair or as a PrivKey; the signature of data verifies as true under
\* alice's public key and as false under the public key of bob, whose keys
\* are different, given as a KeyPair or as a PubKey.
C12_SignVerify ==
  /\ signed.as # "none" => signed.r.ok
  /\ (verdict.who # "none" /\ verdict.data = verdict.signed.data)
       => /\ verdict.r.ok
          /\ verdict.who = "alice" => verdict.r.val = TRUE
          /\ (verdict.who = "bob" /\ DifferentKeys)
               => verdict.r.val = FALSE

C12_Witness ==
  /\ DifferentKeys
  /\ verdict.who = "bob" /\ verdict.as = "KeyPair"
  /\ verdict.signed.as = "PrivKey"
  /\ verdict.data = verdict.signed.data
  /\ verdict.r = Ok(FALSE)

\* C13: encrypt succeeds and returns the caller's iv unchanged, or the
\* IvLen random bytes when no iv is given; decrypt of the envelope's
\* encryptedData and iv with alice's public key and bob's private key
\* returns the data, and KeyPair objects in place of the keys change nothing.
C13_EncryptDecrypt ==
  /\ envelope.alice # "none"
       => /\ envelope.r.ok
          /\ envelope.iv # NoIv => envelope.r.val.iv = envelope.iv
          /\ envelope.iv = NoIv
               => /\ envelope.r.val.iv = envelope.random
                  /\ Len(envelope.r.val.iv) = IvLen
  /\ plain.alice # "none" => plain.r = Ok(plain.of.data)

C13_Witness ==
  /\ DifferentKeys
  /\ plain.alice = "PubKey" /\ plain.bob = "KeyPair"
  /\ plain.of.alice = "KeyPair" /\ plain.of.bob = "PubKey"
  /\ plain.of.iv = NoIv
  /\ plain.of.data # <<>>
  /\ plain.r.ok

\* C14: for every buffer, of any length, urlBase64ToArrayBuffer of
\* arrayBufferToUrlBase64(buffer) is the buffer, and so is
\* base64ToArrayBuffer of urlBase64ToBase64 of it.
C14_UrlBase64RoundTrip ==
  /\ back.fmt = "ub64" => back.r = Ok(buffer)
  /\ (back.fmt = "ub64 to b64" /\ text.str = urlBase64ToBase64(
                                               arrayBufferToUrlBase64(buffer)))
       => back.r = Ok(buffer)

IsUrlBase64Char(c) == c \in {"-", "_"} \/ (IsB64Char(c) /\ c \notin {"+", "/"})

\* C15: arrayBufferToHexString(buffer) has two hex digits for every byte,
\* bytes below 0x10 included, and hexStringToArrayBuffer of it is the buffer.
C15_HexRoundTrip ==
  /\ text.fmt = "hex"
       => /\ Len(text.str) = 2 * Len(buffer)
          /\ \A i \in 1..Len(text.str) : IsHexChar(text.str[i])
  /\ back.fmt = "hex" => back.r = Ok(buffer)

C15_Witness ==
  /\ back.fmt = "hex" /\ back.r.ok
  /\ Len(buffer) = 3
  /\ buffer[1] = 0 /\ buffer[2] = 15 /\ buffer[3] = 255

\* C16: every character of arrayBufferToUrlBase64(buffer), and of
\* base64ToUrlBase64 of a base64 string, is a letter, a digit, '_' or '-':
\* none is '=', '+' or '/'.
C16_UrlSafeAlphabet ==
  text.fmt \in {"ub64", "b64 to ub64"}
    => \A i \in 1..Len(text.str) : IsUrlBase64Char(text.str[i])

\* the import method of each type tag that a class recognises
FromMethods(cls) ==
  IF cls = "PrivKey"
  THEN [b64 |-> "fromBase64", hex |-> "fromHexString", pkcs8 |-> "fromPkcs8",
        jwk |-> "fromJwk", d |-> "fromD", seed |-> "fromSeed",
        random |-> "fromRandom"]
  ELSE [b64 |-> "fromBase64", hex |-> "fromHexString", spki |-> "fromSpki",
        jwk |-> "fromJwk", coordinates |-> "fromCoordinates",
        raw |-> "fromRaw", priv |-> "fromPrivKey"]

\* what the import method of a recognised type returns for arg
FromMethod(cls, type, arg) ==
  IF cls = "PrivKey"
  THEN CASE type = "b64" -> OldPrivKey_fromBase64(arg)
         [] type = "hex" -> OldPrivKey_fromHexString(arg)
         [] type = "pkcs8" -> OldPrivKey_fromPkcs8(arg)
         [] type = "jwk" -> OldPrivKey_fromJwk(arg)
         [] type = "d" -> OldPrivKey_fromD(arg)
         [] type = "seed" -> OldPrivKey_fromSeed(arg, MaxAttempts)
         [] type = "random" -> OldPrivKey_fromRandom(arg)
  ELSE CASE type = "b64" -> OldPubKey_fromBase64(arg)
         [] type = "hex" -> OldPubKey_fromHexString(arg)
         [] type = "spki" -> OldPubKey_fromSpki(arg)
         [] type = "jwk" -> OldPubKey_fromJwk(arg)
         [] type = "coordinates" -> OldPubKey_fromCoordinates(arg.x, arg.y)
         [] type = "raw" -> OldPubKey_fromRaw(arg)
         [] type = "priv" -> OldPubKey_fromPrivKey(arg)

UnknownTypeErrors ==
  {"Can't create Priv key from unknown type", "Unknown type is provided"}

\* C17: from with a type tag outside the set of its class throws the
\* unknown-type error, returns no instance and calls no method and so not
\* the provider; with a recognised tag it calls the import method of that
\* format, of which it returns the outcome.
C17_UnknownFormatTag ==
  dispatched.cls # "none"
    => IF dispatched.type \in DOMAIN FromMethods(dispatched.cls)
       THEN /\ dispatched.via = FromMethods(dispatched.cls)[dispatched.type]
            /\ Traced(dispatched.r, dispatched.n)
                 = FromMethod(dispatched.cls, dispatched.type, dispatched.arg)
       ELSE /\ dispatched.via = "none"
            /\ ~dispatched.r.ok
            /\ dispatched.r.err \in UnknownTypeErrors
            /\ dispatched.n = 0

C17_Witness ==
  /\ dispatched.cls = "PrivKey"
  /\ dispatched.type = "raw"
  /\ dispatched.via = "none"
  /\ dispatched.r.err = "Can't create Priv key from unknown type"

\* h is a key handle of the provider, of this type and algorithm
IsHandle(h, type, algo) ==
  /\ DOMAIN h # {}
  /\ h.type = type
  /\ h.algo = algo

\* the instance v has both its handles, a KeyPair both its halves
Whole(cls, v) ==
  /\ DOMAIN v # {}
  /\ CASE cls = "PrivKey" ->
            /\ IsHandle(v.ecdh, "private", "ECDH")
            /\ IsHandle(v.ecdsa, "private", "ECDSA")
       [] cls = "PubKey" ->
            /\ IsHandle(v.ecdh, "public", "ECDH")
            /\ IsHandle(v.ecdsa, "public", "ECDSA")
       [] cls = "KeyPair" ->
            /\ DOMAIN v.priv # {} /\ DOMAIN v.pub # {}
            /\ IsHandle(v.priv.ecdh, "private", "ECDH")
            /\ IsHandle(v.priv.ecdsa, "private", "ECDSA")
            /\ IsHandle(v.pub.ecdh, "public", "ECDH")
            /\ IsHandle(v.pub.ecdsa, "public", "ECDSA")

\* what an operation hands to its caller: a whole instance, or no instance
WholeOrNone(cls, r) == IF r.ok THEN Whole(cls, r.val) ELSE r.val = <<>>

\* C18: every PrivKey and PubKey in the caller's hands has its ECDH and its
\* ECDSA handle and every KeyPair both its halves; an operation one of
\* whose imports was rejected has thrown and returned no instance, and
\* fromPkcs8 returns an instance only when both role imports of its buffer
\* succeed.
C18_NoPartialConstruction ==
  /\ subject.cls # "none" => Whole(subject.cls, subject.v)
  /\ result.op[1] # "none" => WholeOrNone(result.op[1], result.r)
  /\ (result.op[3] = "pkcs8" /\ result.r.ok)
       => /\ importKeyPkcs8(result.input.r.val, "ECDH", {"deriveKey"}).ok
          /\ importKeyPkcs8(result.input.r.val, "ECDSA", {"sign"}).ok
  /\ \A i \in 1..2 :
       /\ runs[i].st = "done" => Whole(runs[i].cls, runs[i].key)
       /\ calls[i].pc = "done" => WholeOrNone(calls[i].cls, calls[i].r)
       /\ calls[i].pc # "done" => calls[i].r = IdleCall.r

C18_Witness ==
  \E i \in 1..2 :
    /\ calls[i].cls = "PrivKey"
    /\ calls[i].pc = "done"
    /\ DOMAIN calls[i].ecdh # {}
    /\ ~calls[i].r.ok /\ calls[i].r.val = <<>>

RECURSIVE Iterate(_, _)
\* s_k of the chain s_0 = seed, s_(i+1) = SHA-256(s_i)
Iterate(seed, k) == IF k = 0 THEN seed ELSE digest(Iterate(seed, k - 1))

\* fromD accepts the iterate s_k of the run's seed
Accepted(run, k) == FromD(run.cls, Iterate(run.seed, k)).ok

\* a run of fromSeed after its rounds so far: it has returned the key of
\* the first accepted iterate s_k after k + 1 calls of fromD and k digests,
\* or it has been rejected on every iterate so far and goes on
SeedLoop(run) ==
  /\ run.st \in {"idle", "running", "done", "capped"}
  /\ run.st = "done"
       => /\ run.attempts >= 1
          /\ run.cur = Iterate(run.seed, run.attempts - 1)
          /\ Accepted(run, run.attempts - 1)
          /\ run.key = FromD(run.cls, run.cur).val
          /\ \A j \in 0..(run.attempts - 2) : ~Accepted(run, j)
  /\ run.st \in {"running", "capped"}
       => /\ run.cur = Iterate(run.seed, run.attempts)
          /\ run.key = <<>>
          /\ \A j \in 0..(run.attempts - 1) : ~Accepted(run, j)
  /\ run.st = "capped" => run.attempts = MaxAttempts

\* C19: a call of fromSeed whose chain of digests has an accepted iterate
\* returns, at the least such s_k, after k + 1 calls of fromD and k digests;
\* as long as every iterate is rejected it goes on: it neither returns nor
\* throws, at any number of rounds.
C19_SeedLoopTermination ==
  /\ [](\A i \in 1..2 : SeedLoop(runs[i]))
  /\ \A i \in 1..2 :
       (runs[i].st = "running"
          /\ \E k \in 0..(MaxAttempts - 1) : Accepted(runs[i], k))
         ~> (runs[i].st = "done")

C19_Witness ==
  /\ runs[1].st = "done" /\ runs[1].attempts >= 3
  /\ runs[2].st = "running" /\ runs[2].attempts = 1

\* the buffer that cls.fromD(dBuf) hands to the PKCS#8 import
FromD_handed(cls, dBuf) ==
  IF cls = "PrivKey" THEN FromD_pkcs8(dBuf)
  ELSE IF KeyPair_fromD_buffers(dBuf).p.inf THEN Thrown("TypeError")
  ELSE KeyPair_fromD_buffers(dBuf).pkcs8

\* dBuf is a full-width big-endian scalar d with 0 < d < n
FullWidthScalar(dBuf) ==
  /\ Len(dBuf) = KeyLen
  /\ BytesToInt(dBuf) \in 1..(CurveN - 1)

\* the layout of C20: header, d, XY header, X and Y of d * G at full width
Pkcs8Layout(buf, dBuf) ==
  Let(GMul(BytesToInt(dBuf)), LAMBDA p :
      /\ Len(buf) = Pkcs8Len
      /\ Subarray(buf, 0, DOff) = pkcs8DHeader
      /\ Subarray(buf, DOff, XYHeaderOff) = dBuf
      /\ Subarray(buf, XYHeaderOff, XOff) = pkcs8XYHeader
      /\ Subarray(buf, XOff, YOff) = IntToBytes(p.x, KeyLen)
      /\ Subarray(buf, YOff, Pkcs8Len) = IntToBytes(p.y, KeyLen))

\* C20: for every full-width scalar d with 0 < d < n that PrivKey.fromD or
\* KeyPair.fromD is called with, the buffer handed to the PKCS#8 import has
\* the length of the layout, the header, d, the XY header and the
\* coordinates X and Y of d * G at their offsets, X and Y at full width
\* (left-padded with zero bytes).
C20_Pkcs8BuiltByFromD ==
  \A cls \in {"PrivKey", "KeyPair"} :
    (/\ result.op = OpName(cls, "d")
     /\ result.input.r.ok
     /\ FullWidthScalar(result.input.r.val))
      => /\ FromD_handed(cls, result.input.r.val).ok
         /\ Pkcs8Layout(FromD_handed(cls, result.input.r.val).val,
                        result.input.r.val)

\* the PrivKey of an exported object
PrivHalf(of) == IF of.cls = "KeyPair" THEN of.v.priv ELSE of.v

\* C21: toRaw of a PrivKey (KeyPair.toRaw is its private key's) is the byte
\* 4, X, Y and D, each of the width of a scalar: its first bytes are the raw
\* export of the PubKey of the key, its last bytes are toD of the key and
\* the scalar field of toPkcs8 of the key.
C21_RawPrivateLayout ==
  (/\ exported.fresh
   /\ exported.fmt = "raw"
   /\ exported.of.cls \in {"PrivKey", "KeyPair"})
    => Let(PrivHalf(exported.of), LAMBDA k :
       Let(exported.r.val, LAMBDA raw :
           /\ exported.r.ok
           /\ Len(raw) = RawPrivLen
           /\ raw[1] = 4
           /\ Subarray(raw, 1, 1 + KeyLen) = IntToBytes(k.ecdh.x, KeyLen)
           /\ Subarray(raw, 1 + KeyLen, RawPubLen) = IntToBytes(k.ecdh.y, KeyLen)
           /\ PubKey_fromPrivKey(k).ok
           /\ Ok(Subarray(raw, 0, RawPubLen))
                = PubKey_toRaw(PubKey_fromPrivKey(k).val)
           /\ Subarray(raw, RawPubLen, RawPrivLen) = IntToBytes(k.ecdh.d, KeyLen)
           /\ Ok(Subarray(raw, RawPubLen, RawPrivLen)) = PrivKey_toD(k)
           /\ PrivKey_toPkcs8(k).ok
           /\ Subarray(raw, RawPubLen, RawPrivLen)
                = Subarray(PrivKey_toPkcs8(k).val, DOff, XYHeaderOff)))

\* toRaw has exported a PrivKey whose X starts with a zero byte
C21_Witness ==
  /\ exported.fresh
  /\ exported.fmt = "raw"
  /\ exported.of.cls = "PrivKey"
  /\ exported.r.ok
  /\ ShortCoordinate(exported.of.v.ecdh.x)

\* the promises of a call followed promise by promise
PairTasks(p) == <<p.priv, p.pub>> \o p.left

\* C22: in fromSeed an attempt after the first starts in the catch of the
\* attempt before it, on the SHA-256 digest of that attempt's input, and
\* when it starts no import that the attempt before it called is pending.
C22_SeedLoopSequential ==
  [][(/\ pair.kind = "fromSeed"
      /\ pair.attempts >= 1
      /\ pair'.attempts = pair.attempts + 1)
       => /\ pair.pc = "digest"
          /\ pair'.cur = digest(pair.cur)
          /\ \A j \in 1..Len(PairTasks(pair)) : ~Pending(PairTasks(pair)[j])]_vars

\* what importKey throws when it rejects the bytes of a key
ImportErrors == {"DataError"}

\* C23: fromSeed goes on to the digest only after an attempt whose fromD
\* failed because the provider rejected the key bytes; an attempt that
\* failed otherwise is the last one, and the run ends with its error.
C23_CatchesOnlyImportError ==
  \A i \in 1..2 : \A j \in 0..(runs[i].attempts - 1) :
    Let(FromD(runs[i].cls, Iterate(runs[i].seed, j)), LAMBDA r :
        (~r.ok /\ r.err \notin ImportErrors)
          => /\ runs[i].attempts = j + 1
             /\ runs[i].st = "failed")

\* the point stored in the PKCS#8 buffer b
StoredPoint(b) ==
  Point(BytesToInt(Subarray(b, XOff, YOff)),
        BytesToInt(Subarray(b, YOff, Pkcs8Len)))

\* KeyPair.fromPkcs8 returned a pair
FromPkcs8_returned ==
  /\ result.op = OpName("KeyPair", "pkcs8")
  /\ result.r.ok

\* C24: the pair that KeyPair.fromPkcs8(b) returns has, as its public half,
\* the key imported from 0x04 and the bytes of b from the offset of X to
\* the end, which holds the point stored in b whether or not it is the
\* scalar times G; its private half is the import of b; b holds after the
\* call what it held before.
C24_Pkcs8LiftsPublicHalf ==
  FromPkcs8_returned =>
    Let(result.input.r.val, LAMBDA b :
        /\ Len(b) = Pkcs8Len
        /\ Ok(result.r.val.pub)
             = PubKey_fromRaw(<<4>> \o Subarray(b, XOff, Pkcs8Len))
        /\ \A h \in {result.r.val.pub.ecdh, result.r.val.pub.ecdsa} :
             Point(h.x, h.y) = StoredPoint(b)
        /\ Ok(result.r.val.priv) = PrivKey_fromPkcs8(b)
        /\ exported.r = Ok(b))

\* a pair lifted from a buffer whose point is not the scalar times G
C24_Witness ==
  /\ FromPkcs8_returned
  /\ StoredPoint(result.input.r.val) # GMul(result.r.val.priv.ecdh.d)

\* the caller's string was handed to hexStringToArrayBuffer
CallerHexDecoded == text.fmt = "caller hex" /\ back.fmt = "caller hex"

\* C25: hexStringToArrayBuffer of a string that holds a character that is
\* not a hex digit throws, and returns no buffer.
C25_MalformedHexIsAnError ==
  (/\ CallerHexDecoded
   /\ \E i \in 1..Len(text.str) : ~IsHexChar(text.str[i]))
    => ~back.r.ok

\* the caller's string holds hex digits only
AllHex(h) == \A i \in 1..Len(h) : IsHexChar(h[i])

\* h with a digit 0 in front when its length is odd
EvenPadded(h) == IF Len(h) % 2 = 1 THEN <<"0">> \o h ELSE h

\* C30: hexStringToArrayBuffer of a string h of n hex digits returns
\* ceil(n / 2) bytes, byte k being the value of the k-th pair of digits of h
\* (of '0' + h when n is odd): n / 2 bytes for an even n, no byte for the
\* empty string.
C30_OddLengthHex ==
  (CallerHexDecoded /\ AllHex(text.str))
    => /\ back.r.ok
       /\ Len(back.r.val) = (Len(text.str) + 1) \div 2
       /\ \A k \in 1..Len(back.r.val) :
            back.r.val[k] = 16 * HexVal(EvenPadded(text.str)[2 * k - 1])
                              + HexVal(EvenPadded(text.str)[2 * k])
       /\ back.r.val = hexStringToArrayBuffer(EvenPadded(text.str))
       /\ text.str = <<>> => back.r.val = <<>>

\* three digits decoded to two bytes, the first digit alone
C30_Witness ==
  /\ CallerHexDecoded
  /\ text.str = <<"F", "a", "1">>
  /\ back.r = Ok(<<15, 161>>)

\* the two calls of fromJwk on one object have ended, and the second was
\* made before the first had ended
BothCallsEnded ==
  /\ calls[1].pc = "done" /\ calls[2].pc = "done"
  /\ calls[2].overlap

\* C26: when two calls of fromJwk were made on one JWK object, the second
\* before the first had ended, each call whose operation returns a key for
\* that object when it is the only one returns that key.
C26_ConcurrentFromJwk ==
  BothCallsEnded =>
    \A i \in 1..2 :
      Let(Import(calls[i].cls, "jwk", calls[i].arg), LAMBDA alone :
          alone.ok => calls[i].r = alone)

\* KeyPair.fromJwk or PubKey.fromJwk has returned a key for the object that
\* an export had just given to the caller; exported.r holds the object as
\* the import left it
FromJwk_returned ==
  /\ result.op \in {OpName("KeyPair", "jwk"), OpName("PubKey", "jwk")}
  /\ result.r.ok
  /\ result.input.of.cls # "none"

\* C27: after KeyPair.fromJwk(jwk) or PubKey.fromJwk(jwk) has returned, the
\* object has every field it had before but key_ops, with the value it had,
\* and PrivKey.fromJwk of the object that KeyPair.fromJwk left returns the
\* private half again.
C27_JwkSurvivesImport ==
  FromJwk_returned =>
    /\ exported.r.ok
    /\ \A f \in DOMAIN result.input.r.val \ {"key_ops"} :
         /\ f \in DOMAIN exported.r.val
         /\ exported.r.val[f] = result.input.r.val[f]
    /\ result.op = OpName("KeyPair", "jwk")
         => PrivKey_fromJwk(exported.r.val) = Ok(result.r.val.priv)

\* PrivKey.fromD(dBuf) and KeyPair.fromD(dBuf) both return, with the same
\* private key, or both throw
FromD_agree(dBuf) ==
  Let(PrivKey_fromD(dBuf), LAMBDA priv :
  Let(KeyPair_fromD(dBuf), LAMBDA kp :
      /\ priv.ok = kp.ok
      /\ priv.ok => kp.val.priv = priv.val))

\* PrivKey.fromSeed and KeyPair.fromSeed were called with one seed
SameSeedRuns ==
  /\ runs[1].cls = "PrivKey" /\ runs[2].cls = "KeyPair"
  /\ runs[1].seed = runs[2].seed

\* C28: of two runs of PrivKey.fromSeed and KeyPair.fromSeed on one seed,
\* neither goes past an iterate at which the other has returned, and when
\* both have returned they have made the same number of rounds and the
\* private half of the pair is the PrivKey; at every iterate that a run
\* hands to fromD, PrivKey.fromD and KeyPair.fromD both return, the same
\* private key, or both throw.
C28_KeyPairSeedAgrees ==
  /\ \A i \in 1..2 : runs[i].st # "idle" => FromD_agree(runs[i].cur)
  /\ SameSeedRuns =>
       /\ \A i \in 1..2 : \A j \in 1..2 :
            runs[i].st = "done"
              => /\ runs[j].attempts <= runs[i].attempts
                 /\ runs[j].st # "capped"
       /\ (runs[1].st = "done" /\ runs[2].st = "done")
            => /\ runs[2].attempts = runs[1].attempts
               /\ Material("KeyPair", runs[2].key)
                    = Material("PrivKey", runs[1].key)
               /\ runs[2].key.priv = runs[1].key

\* both runs have returned after rehashing a seed that fromD rejects
C28_Witness ==
  /\ SameSeedRuns
  /\ runs[1].st = "done" /\ runs[2].st = "done"
  /\ runs[1].attempts >= 2

\* C29: no import that KeyPair.fromPkcs8, fromRaw, fromD or fromSeed has
\* started and gone on without is rejected: every rejection of an import of
\* a half reaches the await of the call that started it.
C29_NoOrphanedFailure ==
  pair.cls = "KeyPair"
    => \A j \in 1..Len(pair.left) : pair.left[j].st # "rejected"

====
